---- MODULE Spec2Model ----
(***************************************************************************)
(* Model of the version-constraint engine, the candidate resolver and the  *)
(* registry clients of bump (MilosRandelovic/homebrew-bump).               *)
(*                                                                         *)
(* Strings are sequences of one-character strings, so that prefix          *)
(* extraction, splitting, number parsing and byte-wise comparison are      *)
(* computed as the Go code computes them.                                  *)
(*                                                                         *)
(* The repository holds two generations of internal/shared/version.go:     *)
(*   - the hand-written engine (src/unnamed/part_011): definitions carry   *)
(*     the source's names;                                                 *)
(*   - the engine built on Masterminds/semver (src/unnamed/part_012):      *)
(*     definitions carry the source's names with the suffix MM.            *)
(***************************************************************************)
EXTENDS Integers, Sequences, FiniteSets, TLC

VARIABLES op, snapshot, constraint, target, versions, compatible,
          absoluteLatest, constraintLatest, err,
          ecosystem, registryURL, packageName, useCache, cacheHit, entries, now, calls,
          file, original, outdated, includePeerDependencies, dependencies,
          cacheFile, lookupKey, stored, returned, roundTrip,
          registry, semver, result, progress

vars == <<op, snapshot, constraint, target, versions, compatible,
          absoluteLatest, constraintLatest, err,
          ecosystem, registryURL, packageName, useCache, cacheHit, entries, now, calls,
          file, original, outdated, includePeerDependencies, dependencies,
          cacheFile, lookupKey, stored, returned, roundTrip,
          registry, semver, result, progress>>

\* What the registries answer, the semver flag and the CheckResult of
\* CheckOutdatedWithProgress.
checkVars == <<registry, semver, result, progress>>

\* The cache file, the arguments and the result of the last cache operation,
\* and how far a Set, SaveEntries, LoadEntries sequence has come.
cacheVars == <<cacheFile, lookupKey, stored, returned, roundTrip>>

\* The manifest file, the update request and the parsed dependencies.
manifestVars == <<file, original, outdated, includePeerDependencies, dependencies>>

(***************************************************************************)
(* Bounds of the model.                                                    *)
(***************************************************************************)
\* Largest major, minor and patch number of the enumerated versions.
MaxNum == 2
\* Longest list of published versions handed to the resolver.
MaxVersions == 3
\* Registry lookups in one run.
MaxCalls == 2
\* Clock ticks in one run.
MaxTicks == 3
\* Clock readings in one second: time.Time is finer than the seconds of
\* time.RFC3339.
TicksPerSecond == 2
\* Longest list of dependencies handed to the check.
MaxDeps == 2

(***************************************************************************)
(* Go strings: byte order and the strings package.                         *)
(***************************************************************************)
Digits == <<"0", "1", "2", "3", "4", "5", "6", "7", "8", "9">>

IsDigit(c) == \E i \in 1..10 : Digits[i] = c

DigitValue(c) == (CHOOSE i \in 1..10 : Digits[i] = c) - 1

\* The characters of the model in ascending byte order.
ByteOrder == <<" ", "+", "-", ".", "0", "1", "2", "3", "4", "5", "6", "7", "8",
               "9", "<", "=", ">", "^", "a", "b", "c", "e", "l", "r", "s", "t",
               "v", "x", "~">>

Ord(c) == CHOOSE i \in 1..Len(ByteOrder) : ByteOrder[i] = c

RECURSIVE StringLess(_, _)
\* Go's s < t on strings: byte-wise lexicographic order.
StringLess(s, t) ==
    IF t = <<>> THEN FALSE
    ELSE IF s = <<>> THEN TRUE
    ELSE IF Head(s) # Head(t) THEN Ord(Head(s)) < Ord(Head(t))
    ELSE StringLess(Tail(s), Tail(t))

\* strings.Contains(s, c) for a one-character c.
Contains(s, c) == \E i \in 1..Len(s) : s[i] = c

\* Index of the first c in s, 0 when there is none.
IndexOf(s, c) ==
    IF Contains(s, c) THEN CHOOSE i \in 1..Len(s) : s[i] = c /\ \A j \in 1..(i - 1) : s[j] # c
    ELSE 0

RECURSIVE Split(_, _)
\* strings.Split(s, c) for a one-character separator: never empty, keeps empty parts.
Split(s, c) ==
    IF ~Contains(s, c) THEN <<s>>
    ELSE <<SubSeq(s, 1, IndexOf(s, c) - 1)>> \o Split(SubSeq(s, IndexOf(s, c) + 1, Len(s)), c)

\* strings.Fields(s): the maximal runs of non-space characters.
Fields(s) == SelectSeq(Split(s, " "), LAMBDA part : part # <<>>)

RECURSIVE Atoi(_)
\* strconv.Atoi on an unsigned decimal: -1 stands for the error result.
Atoi(s) ==
    IF s = <<>> \/ \E i \in 1..Len(s) : ~IsDigit(s[i]) THEN -1
    ELSE IF Len(s) = 1 THEN DigitValue(s[1])
    ELSE 10 * Atoi(SubSeq(s, 1, Len(s) - 1)) + DigitValue(s[Len(s)])

RECURSIVE Itoa(_)
\* strconv.Itoa for n >= 0.
Itoa(n) == IF n < 10 THEN <<Digits[n + 1]>> ELSE Itoa(n \div 10) \o <<Digits[(n % 10) + 1]>>

(***************************************************************************)
(* internal/shared/version.go, hand-written engine (src/unnamed/part_011)  *)
(***************************************************************************)
PrefixChars == {"^", "~", ">", "=", "<"}

RECURSIVE PrefixLen(_)
\* Length of the match of the regular expression ^[\^~>=<]+ (0: no match).
PrefixLen(s) == IF s # <<>> /\ Head(s) \in PrefixChars THEN 1 + PrefixLen(Tail(s)) ELSE 0

CleanVersion(version) == SubSeq(version, PrefixLen(version) + 1, Len(version))

GetVersionPrefix(version) == SubSeq(version, 1, PrefixLen(version))

\* The result of ParseSemanticVersion: ok = FALSE stands for the error return.
ParseError == [ok |-> FALSE, Major |-> 0, Minor |-> 0, Patch |-> 0]

\* ParseSemanticVersion after the three strconv.Atoi calls.
parseNumbers(major, minor, patch) ==
    IF major < 0 \/ minor < 0 \/ patch < 0 THEN ParseError
    ELSE [ok |-> TRUE, Major |-> major, Minor |-> minor, Patch |-> patch]

\* ParseSemanticVersion after strings.Split(version, ".").
parseParts(parts) ==
    IF Len(parts) < 3 THEN ParseError
    ELSE parseNumbers(Atoi(parts[1]), Atoi(parts[2]), Atoi(parts[3]))

ParseSemanticVersion(version) ==
    parseParts(Split(Split(Split(version, "-")[1], "+")[1], "."))

compareSemanticVersions(a, b) ==
    IF a.Major # b.Major THEN (IF a.Major < b.Major THEN -1 ELSE 1)
    ELSE IF a.Minor # b.Minor THEN (IF a.Minor < b.Minor THEN -1 ELSE 1)
    ELSE IF a.Patch # b.Patch THEN (IF a.Patch < b.Patch THEN -1 ELSE 1)
    ELSE 0

\* The switch on the prefix of isSingleComparatorSatisfied.
comparatorSwitch(prefix, comparison) ==
    CASE prefix = <<">", "=">> -> comparison >= 0
      [] prefix = <<">">>      -> comparison > 0
      [] prefix = <<"<", "=">> -> comparison <= 0
      [] prefix = <<"<">>      -> comparison < 0
      [] prefix = <<"=">>      -> comparison = 0
      [] OTHER                 -> FALSE

\* isSingleComparatorSatisfied for a comparator without a prefix.
exactComparator(exactVer, latestVer) ==
    exactVer.ok /\ compareSemanticVersions(latestVer, exactVer) = 0

\* isSingleComparatorSatisfied for a comparator with a prefix.
prefixedComparator(prefix, constraintVer, latestVer) ==
    constraintVer.ok
    /\ comparatorSwitch(prefix, compareSemanticVersions(latestVer, constraintVer))

isSingleComparatorSatisfied(comparator, latestVer) ==
    IF GetVersionPrefix(comparator) = <<>>
    THEN exactComparator(ParseSemanticVersion(comparator), latestVer)
    ELSE prefixedComparator(GetVersionPrefix(comparator),
                            ParseSemanticVersion(CleanVersion(comparator)), latestVer)

\* The loop of isCompoundConstraintCompatible over the comparators.
allComparatorsSatisfied(parts, latestVer) ==
    latestVer.ok /\ \A i \in 1..Len(parts) : isSingleComparatorSatisfied(parts[i], latestVer)

isCompoundConstraintCompatible(cons, latestVersion) ==
    IF Contains(latestVersion, "-") THEN FALSE
    ELSE allComparatorsSatisfied(Fields(cons), ParseSemanticVersion(latestVersion))

\* PrefixSwitch with a tilde that compares the major number only.
PrefixSwitchTildeMajorOnly(prefix, currentVer, latestVer) ==
    CASE prefix = <<"^">> ->
           IF currentVer.Major = 0
           THEN IF currentVer.Minor = 0
                THEN latestVer.Major = 0 /\ latestVer.Minor = 0
                     /\ latestVer.Patch >= currentVer.Patch
                ELSE latestVer.Major = 0 /\ latestVer.Minor >= currentVer.Minor
           ELSE latestVer.Major = currentVer.Major
                /\ (latestVer.Minor > currentVer.Minor
                    \/ (latestVer.Minor = currentVer.Minor
                        /\ latestVer.Patch >= currentVer.Patch))
      [] prefix = <<"~">> ->
           latestVer.Major = currentVer.Major
           /\ compareSemanticVersions(latestVer, currentVer) >= 0
      [] prefix = <<">", "=">> -> compareSemanticVersions(latestVer, currentVer) >= 0
      [] prefix = <<">">>      -> compareSemanticVersions(latestVer, currentVer) > 0
      [] prefix = <<"<", "=">> -> compareSemanticVersions(latestVer, currentVer) <= 0
      [] prefix = <<"<">>      -> compareSemanticVersions(latestVer, currentVer) < 0
      [] OTHER                 -> FALSE

\* The switch on the prefix of IsSemverCompatible.
PrefixSwitch(prefix, currentVer, latestVer) ==
    CASE prefix = <<"^">> ->
           IF currentVer.Major = 0
           THEN IF currentVer.Minor = 0
                THEN latestVer.Major = 0 /\ latestVer.Minor = 0
                     /\ latestVer.Patch >= currentVer.Patch
                ELSE latestVer.Major = 0 /\ latestVer.Minor >= currentVer.Minor
           ELSE latestVer.Major = currentVer.Major
                /\ (latestVer.Minor > currentVer.Minor
                    \/ (latestVer.Minor = currentVer.Minor
                        /\ latestVer.Patch >= currentVer.Patch))
      [] prefix = <<"~">> ->
           latestVer.Major = currentVer.Major /\ latestVer.Minor = currentVer.Minor
           /\ latestVer.Patch >= currentVer.Patch
      [] prefix = <<">", "=">> -> compareSemanticVersions(latestVer, currentVer) >= 0
      [] prefix = <<">">>      -> compareSemanticVersions(latestVer, currentVer) > 0
      [] prefix = <<"<", "=">> -> compareSemanticVersions(latestVer, currentVer) <= 0
      [] prefix = <<"<">>      -> compareSemanticVersions(latestVer, currentVer) < 0
      [] OTHER                 -> FALSE

\* IsSemverCompatible after the two ParseSemanticVersion calls.
compatibleParsed(prefix, currentVer, latestVer) ==
    currentVer.ok /\ latestVer.ok /\ PrefixSwitch(prefix, currentVer, latestVer)

IsSemverCompatible(originalVersion, latestVersion) ==
    IF Contains(originalVersion, " ")
    THEN isCompoundConstraintCompatible(originalVersion, latestVersion)
    ELSE IF GetVersionPrefix(originalVersion) = <<>> THEN FALSE
    ELSE IF Contains(latestVersion, "-") THEN FALSE
    ELSE compatibleParsed(GetVersionPrefix(originalVersion),
                          ParseSemanticVersion(CleanVersion(originalVersion)),
                          ParseSemanticVersion(latestVersion))

\* The less function of FindBothLatestVersions after its two parses.
lessParsed(a, b, verI, verJ) ==
    IF ~verI.ok \/ ~verJ.ok THEN StringLess(a, b)
    ELSE compareSemanticVersions(verI, verJ) < 0

\* The less function handed to sort.Slice by FindBothLatestVersions.
Less(a, b) == lessParsed(a, b, ParseSemanticVersion(a), ParseSemanticVersion(b))

RECURSIVE insertLeft(_, _)
\* One step of the insertion sort: x moves left while Less(x, left neighbour).
insertLeft(sorted, x) ==
    IF sorted = <<>> THEN <<x>>
    ELSE IF Less(x, sorted[Len(sorted)])
         THEN insertLeft(SubSeq(sorted, 1, Len(sorted) - 1), x) \o <<sorted[Len(sorted)]>>
         ELSE Append(sorted, x)

RECURSIVE insertionSort(_)
\* sort.Slice with Less: for slices of at most 12 elements an insertion sort.
insertionSort(data) ==
    IF data = <<>> THEN <<>>
    ELSE insertLeft(insertionSort(SubSeq(data, 1, Len(data) - 1)), data[Len(data)])

\* stableVersions without the filter: every candidate stays in the pool.
stableVersionsUnfiltered(vs) == vs

\* The pre-release filter of FindBothLatestVersions.
stableVersions(vs) == SelectSeq(vs, LAMBDA version : ~Contains(version, "-"))

RECURSIVE scanDown(_, _, _)
\* The downward loop of FindBothLatestVersions: the last element of sorted[1..i]
\* that IsSemverCompatible accepts, <<>> when there is none.
scanDown(sorted, i, cons) ==
    IF i = 0 THEN <<>>
    ELSE IF IsSemverCompatible(cons, sorted[i]) THEN sorted[i]
    ELSE scanDown(sorted, i - 1, cons)

Result(abs, con, e) == [absoluteLatest |-> abs, constraintLatest |-> con, err |-> e]

\* FindBothLatestVersions after the downward loop.
resolveFound(abs, con) ==
    IF con = <<>> THEN Result(abs, <<>>, "no versions satisfy the constraint")
    ELSE Result(abs, con, "nil")

\* FindBothLatestVersions after the sort.
resolveSorted(sorted, cons) ==
    resolveFound(sorted[Len(sorted)], scanDown(sorted, Len(sorted), cons))

\* FindBothLatestVersions after the pre-release filter.
resolveStable(stable, cons) ==
    IF Len(stable) = 0 THEN Result(<<>>, <<>>, "no stable versions available")
    ELSE resolveSorted(insertionSort(stable), cons)

FindBothLatestVersions(vs, cons) ==
    IF Len(vs) = 0 THEN Result(<<>>, <<>>, "no versions provided")
    ELSE resolveStable(stableVersions(vs), cons)

(***************************************************************************)
(* internal/shared/version.go built on github.com/Masterminds/semver/v3    *)
(* (src/unnamed/part_012). The library calls are modelled by what the      *)
(* library does for complete versions (no wildcard or partial constraint   *)
(* versions, no "||" and no "!=", which the inputs below never contain).   *)
(***************************************************************************)
IsAlnumDash(c) == IsDigit(c) \/ c = "-" \/ c \in {"a", "b", "c", "e", "l", "r", "s", "t", "v", "x"}

\* Non-empty [0-9A-Za-z-] identifiers.
allIdents(ids) ==
    \A i \in 1..Len(ids) : ids[i] # <<>> /\ \A j \in 1..Len(ids[i]) : IsAlnumDash(ids[i][j])

\* A dot-separated list of non-empty [0-9A-Za-z-] identifiers.
IsIdentList(s) == allIdents(Split(s, "."))

noLeadingZero(ids) ==
    \A i \in 1..Len(ids) : ~(Len(ids[i]) > 1 /\ ids[i][1] = "0" /\ Atoi(ids[i]) >= 0)

\* A numeric pre-release identifier must not have a leading zero.
ValidPrerelease(s) == noLeadingZero(Split(s, "."))

NoVersion == [ok |-> FALSE, Major |-> 0, Minor |-> 0, Patch |-> 0, Pre |-> <<>>, Meta |-> <<>>]

\* The part of s before the first c (all of s when there is none).
Before(s, c) == IF Contains(s, c) THEN SubSeq(s, 1, IndexOf(s, c) - 1) ELSE s

\* The part of s after the first c (empty when there is none).
After(s, c) == IF Contains(s, c) THEN SubSeq(s, IndexOf(s, c) + 1, Len(s)) ELSE <<>>

numberAt(parts, i) == IF i <= Len(parts) THEN Atoi(parts[i]) ELSE 0

\* The groups of the version pattern: numbers, pre-release, metadata.
versionOfGroups(parts, hasPre, pre, hasMeta, meta) ==
    IF Len(parts) > 3 \/ \E i \in 1..Len(parts) : Atoi(parts[i]) < 0 THEN NoVersion
    ELSE IF hasMeta /\ ~IsIdentList(meta) THEN NoVersion
    ELSE IF hasPre /\ ~(IsIdentList(pre) /\ ValidPrerelease(pre)) THEN NoVersion
    ELSE [ok |-> TRUE, Major |-> numberAt(parts, 1), Minor |-> numberAt(parts, 2),
          Patch |-> numberAt(parts, 3), Pre |-> pre, Meta |-> meta]

\* The version pattern without its metadata group.
versionOfBody(body, hasMeta, meta) ==
    versionOfGroups(Split(Before(body, "-"), "."), Contains(body, "-"), After(body, "-"),
                    hasMeta, meta)

versionOfText(s) == versionOfBody(Before(s, "+"), Contains(s, "+"), After(s, "+"))

\* semver.NewVersion: v?MAJOR(.MINOR)?(.PATCH)?(-PRE)?(+META)?, missing numbers are 0.
NewVersion(v) == versionOfText(IF v # <<>> /\ Head(v) = "v" THEN Tail(v) ELSE v)

\* Version.String(): the normalised text of a parsed version.
VersionString(sv) ==
    Itoa(sv.Major) \o <<".">> \o Itoa(sv.Minor) \o <<".">> \o Itoa(sv.Patch)
    \o (IF sv.Pre = <<>> THEN <<>> ELSE <<"-">> \o sv.Pre)
    \o (IF sv.Meta = <<>> THEN <<>> ELSE <<"+">> \o sv.Meta)

\* comparePrePart on two different, non-empty identifiers and their numbers.
comparePreNumbers(s, o, sn, on) ==
    IF sn >= 0 /\ on >= 0 THEN (IF sn > on THEN 1 ELSE -1)
    ELSE IF on >= 0 THEN 1
    ELSE IF sn >= 0 THEN -1
    ELSE IF StringLess(o, s) THEN 1 ELSE -1

\* One pre-release identifier against another (comparePrePart).
comparePrePart(s, o) ==
    IF s = o THEN 0
    ELSE IF s = <<>> THEN -1
    ELSE IF o = <<>> THEN 1
    ELSE comparePreNumbers(s, o, Atoi(s), Atoi(o))

RECURSIVE comparePrereleaseFrom(_, _, _)
comparePreStep(sparts, oparts, i, d) ==
    IF d # 0 THEN d ELSE comparePrereleaseFrom(sparts, oparts, i + 1)

\* comparePrerelease: identifier by identifier from position i.
comparePrereleaseFrom(sparts, oparts, i) ==
    IF i > Len(sparts) /\ i > Len(oparts) THEN 0
    ELSE comparePreStep(sparts, oparts, i,
                        comparePrePart(IF i <= Len(sparts) THEN sparts[i] ELSE <<>>,
                                       IF i <= Len(oparts) THEN oparts[i] ELSE <<>>))

\* Version.Compare: numbers first, then a release above its pre-releases.
Compare(a, b) ==
    IF a.Major # b.Major THEN (IF a.Major < b.Major THEN -1 ELSE 1)
    ELSE IF a.Minor # b.Minor THEN (IF a.Minor < b.Minor THEN -1 ELSE 1)
    ELSE IF a.Patch # b.Patch THEN (IF a.Patch < b.Patch THEN -1 ELSE 1)
    ELSE IF a.Pre = <<>> /\ b.Pre = <<>> THEN 0
    ELSE IF a.Pre = <<>> THEN 1
    ELSE IF b.Pre = <<>> THEN -1
    ELSE comparePrereleaseFrom(Split(a.Pre, "."), Split(b.Pre, "."), 1)

LessThan(a, b) == Compare(a, b) < 0

ConstraintOps == {<<"=">>, <<">">>, <<"<">>, <<">", "=">>, <<"=", ">">>, <<"<", "=">>,
                  <<"=", "<">>, <<"~">>, <<"~", ">">>, <<"^">>}

constraintOf(o, con) ==
    [ok |-> (o = <<>> \/ o \in ConstraintOps) /\ con.ok, op |-> o, con |-> con]

\* One comparator of a constraint: its operator and its parsed version.
parseConstraint(token) == constraintOf(GetVersionPrefix(token), NewVersion(CleanVersion(token)))

constraintsOf(parsed) ==
    [ok |-> Len(parsed) > 0 /\ \A i \in 1..Len(parsed) : parsed[i].ok, ands |-> parsed]

parseConstraints(tokens) ==
    constraintsOf([i \in 1..Len(tokens) |-> parseConstraint(tokens[i])])

\* semver.NewConstraint: the comparators of a space-separated (AND) constraint.
NewConstraint(c) == parseConstraints(Fields(c))

\* constraintCaret without the rules for a leading zero.
constraintCaretMajorOnly(v, con) ==
    IF LessThan(v, con) THEN FALSE ELSE v.Major = con.Major

constraintCaret(v, con) ==
    IF LessThan(v, con) THEN FALSE
    ELSE IF con.Major > 0 THEN v.Major = con.Major
    ELSE IF v.Major > 0 THEN FALSE
    ELSE IF con.Minor > 0 THEN v.Minor = con.Minor
    ELSE IF v.Minor > 0 THEN FALSE
    ELSE v.Patch = con.Patch

constraintTilde(v, con) ==
    IF LessThan(v, con) THEN FALSE
    ELSE IF con.Major = 0 /\ con.Minor = 0 /\ con.Patch = 0 THEN TRUE
    ELSE v.Major = con.Major /\ v.Minor = con.Minor

\* The comparison operators of a constraint on the result of Version.Compare.
constraintCompare(o, comparison) ==
    CASE o \in {<<">", "=">>, <<"=", ">">>} -> comparison >= 0
      [] o = <<">">>                        -> comparison > 0
      [] o \in {<<"<", "=">>, <<"=", "<">>} -> comparison <= 0
      [] o = <<"<">>                        -> comparison < 0
      [] OTHER                              -> comparison = 0

\* constraint.check: a release constraint never admits a pre-release version.
checkOne(v, c) ==
    IF v.Pre # <<>> /\ c.con.Pre = <<>> THEN FALSE
    ELSE IF c.op = <<"^">> THEN constraintCaret(v, c.con)
    ELSE IF c.op \in {<<"~">>, <<"~", ">">>} THEN constraintTilde(v, c.con)
    ELSE constraintCompare(c.op, Compare(v, c.con))

\* Constraints.Check
Check(c, v) == \A i \in 1..Len(c.ands) : checkOne(v, c.ands[i])

\* IsSemverCompatible after semver.NewConstraint and semver.NewVersion.
checkParsed(c, v) == c.ok /\ v.ok /\ Check(c, v)

IsSemverCompatibleMM(cons, targetVersion) ==
    IF GetVersionPrefix(cons) = <<>>
    THEN CleanVersion(cons) = CleanVersion(targetVersion)
    ELSE checkParsed(NewConstraint(cons), NewVersion(targetVersion))

\* The parse loop: the candidates that parse, in input order.
semverVersions(vs) ==
    SelectSeq([i \in 1..Len(vs) |-> NewVersion(vs[i])], LAMBDA sv : sv.ok)

\* The key of a candidate in versionMap, <<>> when it does not parse.
mapKey(sv) == IF sv.ok THEN VersionString(sv) ELSE <<>>

lastOf(vs, hits) == vs[CHOOSE i \in hits : \A j \in hits : j <= i]

\* versionMap[text]: the last candidate whose normalised text is `text`.
versionMap(vs, text) == lastOf(vs, {i \in 1..Len(vs) : mapKey(NewVersion(vs[i])) = text})

filteredVersions(svs, includePrerelease) ==
    SelectSeq(svs, LAMBDA sv : includePrerelease \/ sv.Pre = <<>>)

RECURSIVE insertLeftMM(_, _)
insertLeftMM(sorted, x) ==
    IF sorted = <<>> THEN <<x>>
    ELSE IF LessThan(x, sorted[Len(sorted)])
         THEN insertLeftMM(SubSeq(sorted, 1, Len(sorted) - 1), x) \o <<sorted[Len(sorted)]>>
         ELSE Append(sorted, x)

RECURSIVE insertionSortMM(_)
\* sort.Slice with filteredVersions[i].LessThan(filteredVersions[j]).
insertionSortMM(data) ==
    IF data = <<>> THEN <<>>
    ELSE insertLeftMM(insertionSortMM(SubSeq(data, 1, Len(data) - 1)), data[Len(data)])

RECURSIVE scanDownMM(_, _, _, _)
\* The downward loop: the original text of the last element of sorted[1..i]
\* that the constraint admits, <<>> when there is none.
scanDownMM(vs, sorted, i, c) ==
    IF i = 0 THEN <<>>
    ELSE IF Check(c, sorted[i]) THEN versionMap(vs, VersionString(sorted[i]))
    ELSE scanDownMM(vs, sorted, i - 1, c)

\* The constraint handed to semver.NewConstraint.
constraintStr(cons) ==
    IF GetVersionPrefix(cons) = <<>> THEN <<">">> \o CleanVersion(cons) ELSE cons

\* FindBothLatestVersions after the downward loop.
resolveFoundMM(abs, con) ==
    IF con = <<>> THEN Result(abs, <<>>, "no versions satisfy the constraint")
    ELSE Result(abs, con, "nil")

\* FindBothLatestVersions after semver.NewConstraint.
resolveConstraintMM(vs, sorted, abs, c) ==
    IF ~c.ok THEN Result(abs, <<>>, "invalid constraint")
    ELSE resolveFoundMM(abs, scanDownMM(vs, sorted, Len(sorted), c))

\* FindBothLatestVersions after the sort.
resolveSortedMM(vs, cons, sorted) ==
    resolveConstraintMM(vs, sorted, versionMap(vs, VersionString(sorted[Len(sorted)])),
                        NewConstraint(constraintStr(cons)))

\* FindBothLatestVersions after the pre-release filter.
resolveFilteredMM(vs, cons, filtered, includePrerelease) ==
    IF Len(filtered) = 0
    THEN Result(<<>>, <<>>, IF includePrerelease THEN "no versions available"
                            ELSE "no stable versions available")
    ELSE resolveSortedMM(vs, cons, insertionSortMM(filtered))

\* FindBothLatestVersions after parsing the constraint's base version.
resolveCurrentMM(vs, cons, parsed, currentSemver) ==
    IF ~currentSemver.ok THEN Result(<<>>, <<>>, "invalid current version")
    ELSE resolveFilteredMM(vs, cons, filteredVersions(parsed, currentSemver.Pre # <<>>),
                           currentSemver.Pre # <<>>)

\* FindBothLatestVersions after the parse loop.
resolveParsedMM(vs, cons, parsed) ==
    IF Len(parsed) = 0 THEN Result(<<>>, <<>>, "no valid semver versions found")
    ELSE resolveCurrentMM(vs, cons, parsed, NewVersion(CleanVersion(cons)))

FindBothLatestVersionsMM(vs, cons) ==
    IF Len(vs) = 0 THEN Result(<<>>, <<>>, "no versions provided")
    ELSE resolveParsedMM(vs, cons, semverVersions(vs))

(***************************************************************************)
(* Inputs: version strings and constraints.                                *)
(***************************************************************************)
Dot == <<".">>

FormatVersion(major, minor, patch) == Itoa(major) \o Dot \o Itoa(minor) \o Dot \o Itoa(patch)

Beta == <<"-", "b", "e", "t", "a">>

Latest == <<"l", "a", "t", "e", "s", "t">>

Nums == 0..MaxNum

\* Released versions x.y.z and pre-releases x.y.0-beta.
StableVersions == {FormatVersion(a, b, c) : a \in Nums, b \in Nums, c \in Nums}

PreVersions == {FormatVersion(a, b, 0) \o Beta : a \in Nums, b \in Nums}

\* Strings that ParseSemanticVersion rejects: a word and a two-part number.
Unparsable == {Latest, <<"1", ".", "0">>}

Targets == StableVersions \cup PreVersions \cup Unparsable

\* The comparators of the README and of HasSemanticPrefix, and no prefix.
Comparators == {<<"^">>, <<"~">>, <<">", "=">>, <<">">>, <<"<", "=">>, <<"<">>}

SingleConstraints ==
    {p \o b : p \in Comparators \cup {<<>>}, b \in StableVersions \cup PreVersions}
    \cup {<<"^">> \o Latest}

\* Clauses of compound constraints: a comparator and a version x.y.0, x >= 1, y <= 1.
Clauses == {p \o FormatVersion(a, b, 0) : p \in Comparators, a \in 1..MaxNum, b \in 0..1}

CompoundConstraints == {c1 \o <<" ">> \o c2 : c1 \in Clauses, c2 \in Clauses}

CompoundTargets == {FormatVersion(a, b, 0) : a \in Nums, b \in Nums}

\* Published versions the resolver is run on: the versions of the leading-zero
\* scenario, two versions whose byte order and numeric order differ, a
\* pre-release above them and a string that is no version.
Published == {FormatVersion(0, 0, 1), FormatVersion(0, 0, 2), FormatVersion(0, 1, 0),
              FormatVersion(1, 9, 0), FormatVersion(1, 10, 0), FormatVersion(1, 11, 0) \o Beta,
              <<"1", ".", "5", "x">>}

Elems(l) == {l[i] : i \in 1..Len(l)}

IsInjective(l) == Cardinality(Elems(l)) = Len(l)

\* The version lists of TestFindBothLatestVersions (src/internal/updater/updater_test.go).
NodeVersions == <<FormatVersion(22, 15, 0), FormatVersion(22, 16, 0), FormatVersion(22, 17, 0),
                  FormatVersion(24, 0, 0), FormatVersion(24, 1, 0)>>

OnlyPreReleases == <<FormatVersion(1, 0, 0) \o Beta, FormatVersion(1, 1, 0) \o Beta>>

MixedVersions == <<FormatVersion(1, 0, 0), FormatVersion(1, 1, 0) \o Beta, FormatVersion(1, 1, 0)>>

\* Versions below, inside and at the upper bound of the range >=1.21.0 <2.0.0.
BoundedVersions == <<FormatVersion(1, 20, 0), FormatVersion(1, 25, 0), FormatVersion(2, 0, 0)>>

\* The lists of at most MaxVersions distinct published versions, in every
\* order, and the lists of the tests.
VersionLists ==
    {l \in UNION {[1..k -> Published] : k \in 0..MaxVersions} : IsInjective(l)}
    \cup {NodeVersions, OnlyPreReleases, MixedVersions, BoundedVersions}

CompoundRange == <<">", "=">> \o FormatVersion(1, 0, 0) \o <<" ", "<">> \o FormatVersion(2, 0, 0)

BoundedRange == <<">", "=">> \o FormatVersion(1, 21, 0) \o <<" ", "<">> \o FormatVersion(2, 0, 0)

ResolveConstraints ==
    {<<"^">> \o FormatVersion(0, 0, 1), <<"^">> \o FormatVersion(0, 0, 2),
     <<"^">> \o FormatVersion(0, 1, 0),
     <<"^">> \o FormatVersion(1, 0, 0), <<"~">> \o FormatVersion(1, 9, 0),
     <<"^">> \o FormatVersion(2, 0, 0), <<">", "=">> \o FormatVersion(1, 0, 0),
     <<"<">> \o FormatVersion(1, 0, 0),
     FormatVersion(1, 9, 0), <<"^">> \o FormatVersion(1, 0, 0) \o Beta,
     <<"^">> \o FormatVersion(22, 16, 0), CompoundRange, BoundedRange, <<"^">> \o Latest}

Snapshots == {"part_011", "part_012"}

(***************************************************************************)
(* The cache (src/internal/shared/cache.go) and the registry clients       *)
(* (src/internal/npm/registry.go, src/internal/pub/registry.go).           *)
(***************************************************************************)
\* Lifetime of a cache entry in minutes: time.Now().Add(10 * time.Minute).
CacheTTL == 10

\* The clock advances in steps of half the lifetime of an entry.
TickMinutes == CacheTTL \div 2

\* time.Minute in clock readings.
Minute == 60 * TicksPerSecond

Bar == <<"|">>

\* fmt.Sprintf("%s|%s|%s|%s", pkg, packageType, current, constraint)
generateCacheKey(pkg, packageType, current, cons) ==
    pkg \o Bar \o packageType \o Bar \o current \o Bar \o cons

CacheEntry(pkg, packageType, cons, abs, con, expiry) ==
    [PackageName |-> pkg, Type |-> packageType, CurrentVersion |-> <<>>, Constraint |-> cons,
     AbsoluteLatest |-> abs, ConstraintLatest |-> con, Expiry |-> expiry]

\* A lookup that does not look at the expiry.
CacheGetAnyAge(es, key, t) ==
    IF key \notin DOMAIN es THEN [ok |-> FALSE, entries |-> es]
    ELSE [ok |-> TRUE, entries |-> es]

\* Cache.Get at time t: found, and the map afterwards (an expired entry is deleted).
CacheGet(es, key, t) ==
    IF key \notin DOMAIN es THEN [ok |-> FALSE, entries |-> es]
    ELSE IF t > es[key].Expiry
         THEN [ok |-> FALSE, entries |-> [k \in DOMAIN es \ {key} |-> es[k]]]
         ELSE [ok |-> TRUE, entries |-> es]

\* The map after Cache.Set(entry) under the key of the entry.
setAt(es, key, entry) == [k \in DOMAIN es \cup {key} |-> IF k = key THEN entry ELSE es[k]]

CacheSet(es, entry) ==
    setAt(es, generateCacheKey(entry.PackageName, entry.Type, entry.CurrentVersion,
                               entry.Constraint), entry)

\* A cache file that does not exist.
NoFile == [exists |-> FALSE, lines |-> <<>>]

\* CacheEntry{}
NoEntry ==
    [PackageName |-> <<>>, Type |-> <<>>, CurrentVersion |-> <<>>, Constraint |-> <<>>,
     AbsoluteLatest |-> <<>>, ConstraintLatest |-> <<>>, Expiry |-> 0]

\* What Cache.Get returns on a miss.
Miss == [ok |-> FALSE, entry |-> NoEntry]

\* The key of an entry.
keyOf(e) == generateCacheKey(e.PackageName, e.Type, e.CurrentVersion, e.Constraint)

\* What Cache.Get returns at time t: the entry and found.
CacheGetResult(es, k, t) ==
    IF CacheGet(es, k, t).ok THEN [ok |-> TRUE, entry |-> es[k]] ELSE Miss

\* The packageType argument of GenerateCacheKey.
TypeText(eco) == IF eco = "npm" THEN <<"n", "p", "m">> ELSE <<"p", "u", "b">>

\* shared.FindBothLatestVersions of the build.
sharedFindBothLatestVersions(snap, vs, cons) ==
    IF snap = "part_011" THEN FindBothLatestVersions(vs, cons)
    ELSE FindBothLatestVersionsMM(vs, cons)

Outcome(abs, con, e, hit, vs, es) ==
    [absoluteLatest |-> abs, constraintLatest |-> con, err |-> e, cacheHit |-> hit,
     versions |-> vs, entries |-> es]

\* GetBothLatestVersions after shared.FindBothLatestVersions.
afterResolve(r, eco, pkg, cons, vs, es, t, cacheOn) ==
    IF r.err # "nil" THEN Outcome(<<>>, <<>>, r.err, FALSE, vs, es)
    ELSE Outcome(r.absoluteLatest, r.constraintLatest, "nil", FALSE, vs,
                 IF cacheOn
                 THEN CacheSet(es, CacheEntry(pkg, TypeText(eco), cons, r.absoluteLatest,
                                              r.constraintLatest, t + CacheTTL * Minute))
                 ELSE es)

\* GetBothLatestVersions after the cache lookup: got.ok is the hit.
afterLookup(got, key, snap, eco, pkg, cons, fetched, listing, t, cacheOn) ==
    IF got.ok
    THEN Outcome(got.entries[key].AbsoluteLatest, got.entries[key].ConstraintLatest, "nil",
                 TRUE, <<>>, got.entries)
    ELSE IF ~fetched THEN Outcome(<<>>, <<>>, "fetch failed", FALSE, <<>>, got.entries)
    ELSE afterResolve(sharedFindBothLatestVersions(snap, listing, cons), eco, pkg, cons,
                      listing, got.entries, t, cacheOn)

\* GetBothLatestVersions of a registry client: what it returns and the cache it leaves.
GetBothLatestVersions(snap, eco, pkg, cons, fetched, listing, es, t, cacheOn) ==
    afterLookup(IF cacheOn THEN CacheGet(es, generateCacheKey(pkg, TypeText(eco), <<>>, cons), t)
                ELSE [ok |-> FALSE, entries |-> es],
                generateCacheKey(pkg, TypeText(eco), <<>>, cons),
                snap, eco, pkg, cons, fetched, listing, t, cacheOn)

(***************************************************************************)
(* Registry contents.                                                      *)
(***************************************************************************)
Core == <<"c", "o", "r", "e">>

Web == <<"w", "e", "b">>

Packages == {Core, Web}

\* The versions array of a pub registry response.
PubVersions(pkg) ==
    IF pkg = Core
    THEN <<FormatVersion(1, 0, 0), FormatVersion(1, 1, 0), FormatVersion(1, 7, 0)>>
    ELSE <<FormatVersion(0, 0, 1), FormatVersion(0, 0, 2), FormatVersion(1, 0, 0) \o Beta>>

\* The versions object of an npm registry response: version and deprecation.
NpmVersions(pkg) ==
    IF pkg = Core
    THEN {[version |-> FormatVersion(1, 0, 0), deprecated |-> FALSE],
          [version |-> FormatVersion(1, 1, 0), deprecated |-> FALSE],
          [version |-> FormatVersion(1, 7, 0), deprecated |-> FALSE]}
    ELSE {[version |-> FormatVersion(0, 0, 1), deprecated |-> FALSE],
          [version |-> FormatVersion(0, 0, 2), deprecated |-> TRUE],
          [version |-> FormatVersion(1, 0, 0) \o Beta, deprecated |-> FALSE]}

\* The lists the npm client can build: the non-deprecated versions in any
\* order (the iteration order of a Go map).
nonDeprecated(infos) == {i.version : i \in {j \in infos : ~j.deprecated}}

orderings(S) == {l \in [1..Cardinality(S) -> S] : IsInjective(l)}

NpmListings(pkg) == orderings(nonDeprecated(NpmVersions(pkg)))

RegistryConstraints == {<<"^">> \o FormatVersion(0, 0, 1), <<"^">> \o FormatVersion(1, 0, 0)}

\* The registryURL argument: the public registry of the ecosystem or the
\* registry a configuration file names for the package.
RegistryURLs == {"default", "private"}

\* The versions the private registry has of a package.
PrivateVersions(pkg) ==
    IF pkg = Core THEN <<FormatVersion(1, 0, 0), FormatVersion(1, 2, 0)>>
    ELSE <<FormatVersion(0, 0, 1)>>

\* fetchPackageInfo(packageName, registryURL, verbose) of a client when the
\* request succeeds: the version lists the client can build from the response.
fetchPackageInfo(eco, pkg, url) ==
    IF eco = "npm"
    THEN IF url = "default" THEN NpmListings(pkg) ELSE orderings(Elems(PrivateVersions(pkg)))
    ELSE IF url = "default" THEN {PubVersions(pkg)} ELSE {PrivateVersions(pkg)}

(***************************************************************************)
(* Manifest files: more of the strings package, then the package.json      *)
(* parser (src/internal/npm/parser.go) and updater (src/unnamed/part_005).  *)
(* A file is the sequence of its characters, line feeds included.          *)
(***************************************************************************)
DQ == "\""

SQ == "'"

LF == "\n"

\* unicode.IsSpace on the characters of the model.
IsSpace(c) == c \in {" ", "\t", "\n", "\r"}

RECURSIVE skipSpaces(_, _)
\* The first index at or after i that holds no white space (Len(s) + 1: none).
skipSpaces(s, i) == IF i <= Len(s) /\ IsSpace(s[i]) THEN skipSpaces(s, i + 1) ELSE i

RECURSIVE skipSpacesBack(_, _)
\* The last index at or before i that holds no white space (0: none).
skipSpacesBack(s, i) == IF i >= 1 /\ IsSpace(s[i]) THEN skipSpacesBack(s, i - 1) ELSE i

\* strings.TrimSpace(s).
TrimSpace(s) == SubSeq(s, skipSpaces(s, 1), skipSpacesBack(s, Len(s)))

RECURSIVE skipCutset(_, _, _)
skipCutset(s, i, cutset) ==
    IF i <= Len(s) /\ s[i] \in cutset THEN skipCutset(s, i + 1, cutset) ELSE i

RECURSIVE skipCutsetBack(_, _, _)
skipCutsetBack(s, i, cutset) ==
    IF i >= 1 /\ s[i] \in cutset THEN skipCutsetBack(s, i - 1, cutset) ELSE i

\* strings.Trim(s, cutset), the cutset given as a set of characters.
Trim(s, cutset) == SubSeq(s, skipCutset(s, 1, cutset), skipCutsetBack(s, Len(s), cutset))

\* s[i:] starts with p (i counted from 1).
HasPrefixAt(s, i, p) == i + Len(p) - 1 <= Len(s) /\ SubSeq(s, i, i + Len(p) - 1) = p

\* strings.HasPrefix(s, p).
HasPrefix(s, p) == HasPrefixAt(s, 1, p)

\* strings.HasSuffix(s, p).
HasSuffix(s, p) == Len(p) <= Len(s) /\ SubSeq(s, Len(s) - Len(p) + 1, Len(s)) = p

\* strings.Contains(s, sub) for a string sub.
ContainsStr(s, sub) == \E i \in 1..(Len(s) + 1) : HasPrefixAt(s, i, sub)

\* strings.SplitN(s, c, 2) for a one-character separator.
SplitN2(s, c) ==
    IF ~Contains(s, c) THEN <<s>>
    ELSE <<SubSeq(s, 1, IndexOf(s, c) - 1), SubSeq(s, IndexOf(s, c) + 1, Len(s))>>

RECURSIVE Join(_, _)
\* strings.Join(parts, c).
Join(parts, c) ==
    IF parts = <<>> THEN <<>>
    ELSE IF Len(parts) = 1 THEN parts[1]
    ELSE parts[1] \o <<c>> \o Join(Tail(parts), c)

\* shared.DependencyType and its String().
Dependencies == "dependencies"

DevDependencies == "devDependencies"

PeerDependencies == "peerDependencies"

\* A word as the sequence of its characters.
DependenciesWord == <<"d", "e", "p", "e", "n", "d", "e", "n", "c", "i", "e", "s">>

DependenciesKey == <<DQ>> \o DependenciesWord \o <<DQ>>

DevDependenciesKey == <<DQ, "d", "e", "v", "D">> \o Tail(DependenciesWord) \o <<DQ>>

PeerDependenciesKey == <<DQ, "p", "e", "e", "r", "D">> \o Tail(DependenciesWord) \o <<DQ>>

\* shared.Dependency as the package.json parser fills it.
npmDependency(nameStr, versionStr, section, lineNumber) ==
    IF nameStr # <<>> /\ versionStr # <<>>
    THEN <<[Name |-> nameStr, Version |-> CleanVersion(versionStr),
            OriginalVersion |-> versionStr, HostedURL |-> <<>>, Type |-> section,
            LineNumber |-> lineNumber]>>
    ELSE <<>>

\* The name and the version of a line "name": "version", from its two parts.
npmEntry(parts, section, lineNumber) ==
    IF Len(parts) = 2
    THEN npmDependency(Trim(TrimSpace(parts[1]), {DQ}),
                       Trim(Trim(TrimSpace(parts[2]), {DQ, ","}), {DQ}),
                       section, lineNumber)
    ELSE <<>>

RECURSIVE npmParseFrom(_, _, _, _, _)
\* The loop body of ParseDependencies on the trimmed line n.
npmParseLine(lines, n, trimmedLine, currentSection, inSection, includePeer) ==
    IF ContainsStr(trimmedLine, DependenciesKey) /\ Contains(trimmedLine, ":")
    THEN npmParseFrom(lines, n + 1, Dependencies, TRUE, includePeer)
    ELSE IF ContainsStr(trimmedLine, DevDependenciesKey) /\ Contains(trimmedLine, ":")
    THEN npmParseFrom(lines, n + 1, DevDependencies, TRUE, includePeer)
    ELSE IF ContainsStr(trimmedLine, PeerDependenciesKey) /\ Contains(trimmedLine, ":")
    THEN (IF includePeer
          THEN npmParseFrom(lines, n + 1, PeerDependencies, TRUE, includePeer)
          ELSE npmParseFrom(lines, n + 1, currentSection, inSection, includePeer))
    ELSE IF inSection /\ trimmedLine \in {<<"}">>, <<"}", ",">>}
    THEN npmParseFrom(lines, n + 1, currentSection, FALSE, includePeer)
    ELSE IF inSection /\ Contains(trimmedLine, DQ) /\ Contains(trimmedLine, ":")
    THEN npmEntry(SplitN2(trimmedLine, ":"), currentSection, n)
            \o npmParseFrom(lines, n + 1, currentSection, inSection, includePeer)
    ELSE npmParseFrom(lines, n + 1, currentSection, inSection, includePeer)

\* The loop of ParseDependencies from line n on.
npmParseFrom(lines, n, currentSection, inSection, includePeer) ==
    IF n > Len(lines) THEN <<>>
    ELSE npmParseLine(lines, n, TrimSpace(lines[n]), currentSection, inSection, includePeer)

\* Parser.ParseDependencies of internal/npm on the content of the file.
NpmParseDependencies(data, includePeer) ==
    npmParseFrom(Split(data, LF), 1, Dependencies, FALSE, includePeer)

\* No match of a regular expression.
NoMatch == [ok |-> FALSE, open |-> 0, close |-> 0]

\* The index of the first double quote at or after i (0: none).
NextQuote(s, i) ==
    IF \E j \in i..Len(s) : s[j] = DQ
    THEN CHOOSE j \in i..Len(s) : s[j] = DQ /\ \A k \in i..(j - 1) : s[k] # DQ
    ELSE 0

\* ("name"\s*:\s*)"([^"]*)" from the opening quote of the version at index m on.
npmMatchVersion(s, m) ==
    IF m <= Len(s) /\ s[m] = DQ /\ NextQuote(s, m + 1) # 0
    THEN [ok |-> TRUE, open |-> m, close |-> NextQuote(s, m + 1)]
    ELSE NoMatch

\* ("name"\s*:\s*)"([^"]*)" from the colon expected at index k on.
npmMatchColon(s, k) ==
    IF k <= Len(s) /\ s[k] = ":" THEN npmMatchVersion(s, skipSpaces(s, k + 1)) ELSE NoMatch

\* The match of ("name"\s*:\s*)"([^"]*)" that starts at index i: open and close
\* are the indices of the quotes around the second group.
npmMatchAt(s, i, name) ==
    IF HasPrefixAt(s, i, <<DQ>> \o name \o <<DQ>>)
    THEN npmMatchColon(s, skipSpaces(s, i + Len(name) + 2))
    ELSE NoMatch

RECURSIVE npmFind(_, _, _)
\* The leftmost match of the pattern at or after index i.
npmFindOr(m, s, i, name) == IF m.ok THEN m ELSE npmFind(s, i + 1, name)

npmFind(s, i, name) ==
    IF i > Len(s) THEN NoMatch ELSE npmFindOr(npmMatchAt(s, i, name), s, i, name)

RECURSIVE npmReplaceAll(_, _, _, _)
\* versionRegex.ReplaceAllString(line, `${1}"newVersion"`) from index i on.
npmReplaceMatch(m, s, i, name, newVersion) ==
    IF ~m.ok THEN SubSeq(s, i, Len(s))
    ELSE SubSeq(s, i, m.open) \o newVersion \o <<DQ>>
            \o npmReplaceAll(s, m.close + 1, name, newVersion)

npmReplaceAll(s, i, name, newVersion) ==
    npmReplaceMatch(npmFind(s, i, name), s, i, name, newVersion)

\* The outcome of the loop over the updates: the error and the lines in memory.
UpdateOutcome(e, lines) == [err |-> e, lines |-> lines]

\* oldVersion := matches[2]; newVersion := prefix + dependency.LatestVersion.
npmNewVersion(line, m, dependency) ==
    GetVersionPrefix(SubSeq(line, m.open + 1, m.close - 1)) \o dependency.LatestVersion

RECURSIVE npmUpdateLines(_, _)
\* One update of the loop if the pattern were applied to every line of the file.
npmUpdateMatchedEverywhere(lines, dependency, rest, m) ==
    IF ~m.ok THEN UpdateOutcome("could not find", lines)
    ELSE npmUpdateLines(
            [n \in 1..Len(lines) |->
                npmReplaceAll(lines[n], 1, dependency.Name,
                              npmNewVersion(lines[dependency.LineNumber], m, dependency))],
            rest)

\* One update of the loop, m being the submatch on the anchored line.
npmUpdateMatched(lines, dependency, rest, m) ==
    IF ~m.ok THEN UpdateOutcome("could not find", lines)
    ELSE npmUpdateLines(
            [lines EXCEPT ![dependency.LineNumber] =
                npmReplaceAll(@, 1, dependency.Name, npmNewVersion(@, m, dependency))],
            rest)

npmUpdateOne(lines, dependency, rest) ==
    IF dependency.LineNumber < 1 \/ dependency.LineNumber > Len(lines)
    THEN UpdateOutcome("invalid line number", lines)
    ELSE npmUpdateMatched(lines, dependency, rest,
                          npmFind(lines[dependency.LineNumber], 1, dependency.Name))

\* The loop of UpdateDependencies over dependenciesToUpdate.
npmUpdateLines(lines, deps) ==
    IF deps = <<>> THEN UpdateOutcome("nil", lines)
    ELSE npmUpdateOne(lines, Head(deps), Tail(deps))

\* The file after the loop if it were written whatever the outcome.
writeFileAlways(data, outcome) == [err |-> outcome.err, file |-> Join(outcome.lines, LF)]

\* The file after the loop: written only if every update was applied.
writeFileIfApplied(data, outcome) ==
    [err |-> outcome.err,
     file |-> IF outcome.err = "nil" THEN Join(outcome.lines, LF) ELSE data]

\* The updates the package.json updater applies: peer dependencies only on request.
dependenciesToUpdate(outdatedDeps, includePeer) ==
    SelectSeq(outdatedDeps, LAMBDA d : ~(d.Type = PeerDependencies /\ ~includePeer))

npmUpdateFiltered(data, deps) ==
    IF deps = <<>> THEN [err |-> "nil", file |-> data]
    ELSE writeFileIfApplied(data, npmUpdateLines(Split(data, LF), deps))

\* Updater.UpdateDependencies of internal/npm on the content of the file.
NpmUpdateDependencies(data, outdatedDeps, includePeer) ==
    npmUpdateFiltered(data, dependenciesToUpdate(outdatedDeps, includePeer))

(***************************************************************************)
(* The pubspec.yaml parser (src/internal/pub/parser.go) and updater        *)
(* (src/internal/pub/updater.go).                                          *)
(***************************************************************************)
VersionWord == <<"v", "e", "r", "s", "i", "o", "n">>

HostedWord == <<"h", "o", "s", "t", "e", "d">>

SdkWord == <<"s", "d", "k">>

PathWord == <<"p", "a", "t", "h">>

GitWord == <<"g", "i", "t">>

AnyWord == <<"a", "n", "y">>

FlutterWord == <<"f", "l", "u", "t", "t", "e", "r">>

PubDevWord == <<"p", "u", "b", ".", "d", "e", "v">>

\* cleanQuotes(s): the surrounding pair of double or single quotes removed.
cleanQuotesTrimmed(s) ==
    IF (HasPrefix(s, <<DQ>>) /\ HasSuffix(s, <<DQ>>)) \/ (HasPrefix(s, <<SQ>>) /\ HasSuffix(s, <<SQ>>))
    THEN SubSeq(s, 2, Len(s) - 1)
    ELSE s

cleanQuotes(s) == cleanQuotesTrimmed(TrimSpace(s))

shouldIncludeDependency(name, version) ==
    IF name = FlutterWord THEN FALSE
    ELSE IF version = <<>> THEN FALSE
    ELSE IF \/ version = AnyWord
            \/ HasPrefix(version, SdkWord \o <<":">>)
            \/ HasPrefix(version, PathWord \o <<":">>)
            \/ HasPrefix(version, GitWord \o <<":">>) THEN FALSE
    ELSE TRUE

\* packageInfo of a package whose name line has just been read.
newPackage(key, value, lineNumber) ==
    [name |-> key, version |-> IF value # <<>> THEN cleanQuotes(value) ELSE <<>>,
     hostedURL |-> <<>>, sdk |-> <<>>, lineNumber |-> lineNumber, versionLineNumber |-> 0]

\* packageInfo.toDependency(section): no or one shared.Dependency.
toDependency(pkg, section) ==
    IF pkg.sdk # <<>> THEN <<>>
    ELSE IF ~shouldIncludeDependency(pkg.name, pkg.version) THEN <<>>
    ELSE <<[Name |-> pkg.name, Version |-> CleanVersion(pkg.version),
            OriginalVersion |-> pkg.version,
            HostedURL |-> IF pkg.hostedURL # <<>> /\ ~ContainsStr(pkg.hostedURL, PubDevWord)
                          THEN pkg.hostedURL ELSE <<>>,
            Type |-> section,
            LineNumber |-> IF pkg.versionLineNumber > 0 THEN pkg.versionLineNumber
                           ELSE pkg.lineNumber]>>

\* The pending package, a sequence of no or one packageInfo, finalized.
finalize(currentPackage, section) ==
    IF currentPackage = <<>> THEN <<>> ELSE toDependency(currentPackage[1], section)

\* A sub-property line (four spaces or more) of the current package.
pubSubProperty(currentPackage, key, value, lineNumber) ==
    IF currentPackage = <<>> THEN currentPackage
    ELSE IF key = VersionWord
    THEN <<[currentPackage[1] EXCEPT !.version = cleanQuotes(value),
                                     !.versionLineNumber = lineNumber]>>
    ELSE IF key = HostedWord THEN <<[currentPackage[1] EXCEPT !.hostedURL = cleanQuotes(value)]>>
    ELSE IF key = SdkWord THEN <<[currentPackage[1] EXCEPT !.sdk = value]>>
    ELSE currentPackage

Indented(line) == line # <<>> /\ line[1] \in {" ", "\t"}

IsComment(trimmedLine) == HasPrefix(trimmedLine, <<"#">>)

RECURSIVE pubParseFrom(_, _, _, _, _)
\* A "key: value" line inside a section.
pubParseEntry(lines, n, key, value, section, currentPackage) ==
    IF HasPrefix(lines[n], <<" ", " ">>) /\ ~HasPrefix(lines[n], <<" ", " ", " ", " ">>)
    THEN finalize(currentPackage, section)
            \o pubParseFrom(lines, n + 1, section, TRUE, <<newPackage(key, value, n)>>)
    ELSE IF HasPrefix(lines[n], <<" ", " ", " ", " ">>)
    THEN pubParseFrom(lines, n + 1, section, TRUE, pubSubProperty(currentPackage, key, value, n))
    ELSE pubParseFrom(lines, n + 1, section, TRUE, currentPackage)

\* The dependency definitions of a line, after the checks on the sections.
pubParseDefinition(lines, n, trimmedLine, section, inSection, currentPackage) ==
    IF inSection /\ Indented(lines[n]) /\ ~IsComment(trimmedLine) /\ Contains(trimmedLine, ":")
    THEN pubParseEntry(lines, n, TrimSpace(SplitN2(trimmedLine, ":")[1]),
                       TrimSpace(SplitN2(trimmedLine, ":")[2]), section, currentPackage)
    ELSE pubParseFrom(lines, n + 1, section, inSection, currentPackage)

\* The loop body of ParseDependencies on the trimmed line n.
pubParseLine(lines, n, trimmedLine, section, inSection, currentPackage) ==
    IF HasPrefix(trimmedLine, DependenciesWord \o <<":">>)
    THEN finalize(currentPackage, section) \o pubParseFrom(lines, n + 1, Dependencies, TRUE, <<>>)
    ELSE IF HasPrefix(trimmedLine, <<"d", "e", "v", "_">> \o DependenciesWord \o <<":">>)
    THEN finalize(currentPackage, section) \o pubParseFrom(lines, n + 1, DevDependencies, TRUE, <<>>)
    ELSE IF inSection /\ lines[n] # <<>> /\ ~Indented(lines[n]) /\ trimmedLine # <<>>
            /\ ~IsComment(trimmedLine)
    THEN finalize(currentPackage, section)
            \o pubParseDefinition(lines, n, trimmedLine, section, FALSE, <<>>)
    ELSE pubParseDefinition(lines, n, trimmedLine, section, inSection, currentPackage)

\* The loop of ParseDependencies from line n on, then the pending package.
pubParseFrom(lines, n, section, inSection, currentPackage) ==
    IF n > Len(lines) THEN finalize(currentPackage, section)
    ELSE pubParseLine(lines, n, TrimSpace(lines[n]), section, inSection, currentPackage)

\* Parser.ParseDependencies of internal/pub on the content of the file.
PubParseDependencies(data) == pubParseFrom(Split(data, LF), 1, Dependencies, FALSE, <<>>)

RECURSIVE tokenEnd(_, _)
\* The last index of the longest match of [^\s#]+ that starts at index i
\* (i - 1: no match).
tokenEnd(s, i) ==
    IF i <= Len(s) /\ ~IsSpace(s[i]) /\ s[i] # "#" THEN tokenEnd(s, i + 1) ELSE i - 1

\* (\s*key\s*:\s*)([^\s#]+) from the first character of the second group on.
pubMatchVersion(s, m) ==
    IF tokenEnd(s, m) >= m THEN [ok |-> TRUE, open |-> m, close |-> tokenEnd(s, m)]
    ELSE NoMatch

\* (\s*key\s*:\s*)([^\s#]+) from the colon expected at index k on.
pubMatchColon(s, k) ==
    IF k <= Len(s) /\ s[k] = ":" THEN pubMatchVersion(s, skipSpaces(s, k + 1)) ELSE NoMatch

\* (\s*key\s*:\s*)([^\s#]+) from the key expected at index j on.
pubMatchKey(s, j, key) ==
    IF HasPrefixAt(s, j, key) THEN pubMatchColon(s, skipSpaces(s, j + Len(key))) ELSE NoMatch

\* The match of the pattern that starts at index i: open and close are the
\* first and the last index of the second group.
pubMatchAt(s, i, key) == pubMatchKey(s, skipSpaces(s, i), key)

RECURSIVE pubFind(_, _, _)
\* The leftmost match of the pattern at or after index i.
pubFindOr(m, s, i, key) == IF m.ok THEN m ELSE pubFind(s, i + 1, key)

pubFind(s, i, key) ==
    IF i > Len(s) THEN NoMatch ELSE pubFindOr(pubMatchAt(s, i, key), s, i, key)

RECURSIVE pubReplaceAll(_, _, _, _)
\* versionRegex.ReplaceAllString(line, `${1}newVersion`) from index i on.
pubReplaceMatch(m, s, i, key, newVersion) ==
    IF ~m.ok THEN SubSeq(s, i, Len(s))
    ELSE SubSeq(s, i, m.open - 1) \o newVersion \o pubReplaceAll(s, m.close + 1, key, newVersion)

pubReplaceAll(s, i, key, newVersion) ==
    pubReplaceMatch(pubFind(s, i, key), s, i, key, newVersion)

\* The key the pattern looks for: "version" for a hosted package, else the name.
pubPatternKey(dependency) ==
    IF dependency.HostedURL # <<>> THEN VersionWord ELSE dependency.Name

\* oldVersion := matches[2]; newVersion := prefix + dependency.LatestVersion.
pubNewVersion(line, m, dependency) ==
    GetVersionPrefix(SubSeq(line, m.open, m.close)) \o dependency.LatestVersion

RECURSIVE pubUpdateLines(_, _)
\* One update of the loop, m being the submatch on the anchored line.
pubUpdateMatched(lines, dependency, rest, m) ==
    IF ~m.ok THEN UpdateOutcome("could not find", lines)
    ELSE pubUpdateLines(
            [lines EXCEPT ![dependency.LineNumber] =
                pubReplaceAll(@, 1, pubPatternKey(dependency),
                              pubNewVersion(@, m, dependency))],
            rest)

pubUpdateOne(lines, dependency, rest) ==
    IF dependency.LineNumber < 1 \/ dependency.LineNumber > Len(lines)
    THEN UpdateOutcome("invalid line number", lines)
    ELSE pubUpdateMatched(lines, dependency, rest,
                          pubFind(lines[dependency.LineNumber], 1, pubPatternKey(dependency)))

\* The loop of UpdateDependencies over the updates.
pubUpdateLines(lines, deps) ==
    IF deps = <<>> THEN UpdateOutcome("nil", lines)
    ELSE pubUpdateOne(lines, Head(deps), Tail(deps))

\* Updater.UpdateDependencies of internal/pub on the content of the file.
PubUpdateDependencies(data, outdatedDeps, includePeer) ==
    IF includePeer THEN [err |-> "peer dependencies are not supported by pub", file |-> data]
    ELSE IF outdatedDeps = <<>> THEN [err |-> "nil", file |-> data]
    ELSE writeFileIfApplied(data, pubUpdateLines(Split(data, LF), outdatedDeps))

(***************************************************************************)
(* Manifest files and update requests.                                     *)
(***************************************************************************)
PkgA == <<"a">>

PkgB == <<"b">>

PkgC == <<"c">>

PkgD == <<"d">>

PkgE == <<"e">>

PkgH == <<"h">>

PkgG == <<"g">>

Indent == <<" ", " ">>

\* The reference of a workspace package in a package.json: "workspace:*".
WorkspaceRef == <<"w", "o", "r", "k", "s", "p", "a", "c", "e", ":", "*">>

\* The URL of a private registry in a pubspec.yaml.
HostedRegistry == <<"u", ".", "i", "o">>

\* A line "name": "version" of a package.json, with or without its comma.
JsonEntry(name, version, comma) ==
    Indent \o <<DQ>> \o name \o <<DQ, ":", " ", DQ>> \o version \o <<DQ>> \o comma

\* A package.json with package a in two sections, as in
\* TestUpdateDuplicateDependenciesWithDifferentConstraints, and a workspace
\* reference.
PackageJsonLines ==
    << <<"{">>,
       <<" ">> \o DependenciesKey \o <<":", " ", "{">>,
       JsonEntry(PkgB, <<"~">> \o FormatVersion(1, 0, 0), <<",">>),
       JsonEntry(PkgC, WorkspaceRef, <<>>),
       <<" ", "}", ",">>,
       <<" ">> \o DevDependenciesKey \o <<":", " ", "{">>,
       JsonEntry(PkgA, <<"^">> \o FormatVersion(1, 0, 0), <<>>),
       <<" ", "}", ",">>,
       <<" ">> \o PeerDependenciesKey \o <<":", " ", "{">>,
       JsonEntry(PkgA, <<">", "=">> \o FormatVersion(1, 0, 0), <<>>),
       <<" ", "}">>,
       <<"}">> >>

PackageJson == Join(PackageJsonLines, LF)

ScriptsWord == <<"s", "c", "r", "i", "p", "t", "s">>

\* An object of a package.json: its key, its entries, and whether it is
\* written on one line.
JsonObject(objectKey, pairs, oneLine) == [key |-> objectKey, pairs |-> pairs, oneLine |-> oneLine]

\* The objects package.json files are laid out from: a dependencies object,
\* empty on one line or with an entry, a scripts object and a
\* peerDependencies object.
JsonObjects ==
    {JsonObject(Dependencies, <<>>, TRUE),
     JsonObject(Dependencies, << <<PkgA, <<"^">> \o FormatVersion(1, 0, 0)>> >>, FALSE),
     JsonObject("scripts", << <<PkgB, <<"x">>>> >>, FALSE),
     JsonObject(PeerDependencies, << <<PkgC, <<"^">> \o FormatVersion(1, 0, 0)>> >>, FALSE)}

\* The layouts: up to three of the objects in any order, a key at most once.
PackageLayouts ==
    {l \in UNION {[1..k -> JsonObjects] : k \in 1..3} :
        \A i \in 1..Len(l), j \in 1..Len(l) : l[i].key = l[j].key => i = j}

\* The key of an object in quotes.
QuotedKey(objectKey) ==
    CASE objectKey = Dependencies -> DependenciesKey
      [] objectKey = PeerDependencies -> PeerDependenciesKey
      [] OTHER -> <<DQ>> \o ScriptsWord \o <<DQ>>

\* The lines of an object; every object but the last ends with a comma.
ObjectLines(o, comma) ==
    IF o.oneLine
    THEN << <<" ">> \o QuotedKey(o.key) \o <<":", " ", "{", "}">> \o comma >>
    ELSE << <<" ">> \o QuotedKey(o.key) \o <<":", " ", "{">> >>
         \o [i \in 1..Len(o.pairs) |->
                JsonEntry(o.pairs[i][1], o.pairs[i][2],
                          IF i < Len(o.pairs) THEN <<",">> ELSE <<>>)]
         \o << <<" ", "}">> \o comma >>

RECURSIVE LayoutLinesFrom(_, _)
LayoutLinesFrom(l, i) ==
    IF i > Len(l) THEN << <<"}">> >>
    ELSE ObjectLines(l[i], IF i < Len(l) THEN <<",">> ELSE <<>>) \o LayoutLinesFrom(l, i + 1)

\* The package.json of a layout.
LayoutFile(l) == Join(<< <<"{">> >> \o LayoutLinesFrom(l, 1), LF)

\* The package.json files the parser alone is run on.
LaidOutPackageJsons == {LayoutFile(l) : l \in PackageLayouts}

\* A line "  name: value" of a pubspec.yaml.
YamlEntry(indent, name, value) ==
    indent \o name \o <<":">> \o (IF value = <<>> THEN <<>> ELSE <<" ">> \o value)

\* A pubspec.yaml with an unquoted, a double-quoted and a single-quoted
\* version, an SDK, a path and a git reference, "any" and a hosted package.
PubspecLines ==
    << YamlEntry(<<>>, <<"n", "a", "m", "e">>, <<"x">>),
       YamlEntry(<<>>, DependenciesWord, <<>>),
       YamlEntry(Indent, FlutterWord, <<>>),
       YamlEntry(Indent \o Indent, SdkWord, FlutterWord),
       YamlEntry(Indent, PkgA, <<"^">> \o FormatVersion(1, 0, 0)),
       YamlEntry(Indent, PkgB, <<DQ, "^">> \o FormatVersion(1, 0, 0) \o <<DQ>>),
       YamlEntry(Indent, PkgC, AnyWord),
       YamlEntry(Indent, PkgD, <<>>),
       YamlEntry(Indent \o Indent, PathWord, <<".", ".", "/", "d">>),
       YamlEntry(Indent, PkgE, <<>>),
       YamlEntry(Indent \o Indent, GitWord, HostedRegistry),
       YamlEntry(Indent, PkgH, <<>>),
       YamlEntry(Indent \o Indent, HostedWord, HostedRegistry),
       YamlEntry(Indent \o Indent, VersionWord, <<"~">> \o FormatVersion(1, 0, 0)),
       YamlEntry(<<>>, <<"d", "e", "v", "_">> \o DependenciesWord, <<>>),
       YamlEntry(Indent, PkgA, <<SQ, ">", "=">> \o FormatVersion(1, 0, 0) \o <<SQ>>),
       YamlEntry(Indent, PkgG, <<>>),
       YamlEntry(Indent \o Indent, HostedWord, PubDevWord),
       YamlEntry(Indent \o Indent, VersionWord, <<"^">> \o FormatVersion(1, 0, 0)),
       <<>> >>

Pubspec == Join(PubspecLines, LF)

\* The manifest of an ecosystem and its lines.
Manifest(eco) == IF eco = "npm" THEN PackageJson ELSE Pubspec

ManifestLines(eco) == IF eco = "npm" THEN PackageJsonLines ELSE PubspecLines

\* shared.OutdatedDependency, the fields the updaters read.
OutdatedDependencies(eco) ==
    [Name : {PkgA, PkgB},
     LatestVersion : {FormatVersion(2, 0, 0)},
     HostedURL : IF eco = "npm" THEN {<<>>} ELSE {<<>>, HostedRegistry},
     Type : IF eco = "npm" THEN {Dependencies, PeerDependencies} ELSE {Dependencies},
     LineNumber : 0..(Len(ManifestLines(eco)) + 1)]

\* The outdated dependency made of a parsed dependency: same name, hosted
\* URL, type and line number.
FedBack(d) ==
    [Name |-> d.Name, LatestVersion |-> FormatVersion(2, 0, 0), HostedURL |-> d.HostedURL,
     Type |-> d.Type, LineNumber |-> d.LineNumber]

\* Every dependency the pub parser emits for the pubspec.yaml, as an update.
FedBackDependencies ==
    {FedBack(PubParseDependencies(Pubspec)[i]) :
        i \in 1..Len(PubParseDependencies(Pubspec))}

\* The requests of an update: no, one or two outdated dependencies, and for
\* the pubspec.yaml each dependency its parser emits.
UpdateRequests(eco) ==
    {<<>>} \cup {<<d>> : d \in OutdatedDependencies(eco)}
           \cup {<<d, e>> : d \in OutdatedDependencies(eco), e \in OutdatedDependencies(eco)}
           \cup (IF eco = "pub" THEN {<<d>> : d \in FedBackDependencies} ELSE {})

(***************************************************************************)
(* The cache file (src/internal/shared/cache.go) and cache entries.        *)
(***************************************************************************)
\* t.Format(time.RFC3339): the time to the second, the fraction dropped. The
\* text is the count of seconds since the start of the run and the zone Z.
FormatRFC3339(t) == Itoa(t \div TicksPerSecond) \o <<"Z">>

\* time.Parse(time.RFC3339, s): -1 stands for the error result.
ParseRFC3339(s) ==
    IF s # <<>> /\ s[Len(s)] = "Z" /\ Atoi(SubSeq(s, 1, Len(s) - 1)) >= 0
    THEN Atoi(SubSeq(s, 1, Len(s) - 1)) * TicksPerSecond
    ELSE -1

\* The line SaveEntries writes for an entry.
cacheLine(e) ==
    Join(<<e.PackageName, e.Type, e.CurrentVersion, e.Constraint, e.AbsoluteLatest,
           e.ConstraintLatest, FormatRFC3339(e.Expiry)>>, "|")

\* The files SaveEntries can write: a line for every entry of the map, in
\* the iteration order of a Go map.
CacheSaveEntries(es) ==
    {[exists |-> TRUE, lines |-> [i \in DOMAIN o |-> cacheLine(es[o[i]])]] :
        o \in orderings(DOMAIN es)}

\* The entry of a line of seven parts whose expiry was parsed.
entryOfParts(parts, expiry) ==
    [PackageName |-> parts[1], Type |-> parts[2], CurrentVersion |-> parts[3],
     Constraint |-> parts[4], AbsoluteLatest |-> parts[5], ConstraintLatest |-> parts[6],
     Expiry |-> expiry]

\* LoadEntries on a line split at the bars: a line that has not seven parts
\* or no valid expiry is skipped.
loadParts(acc, parts) ==
    IF Len(parts) # 7 THEN acc
    ELSE IF ParseRFC3339(parts[7]) < 0 THEN acc
    ELSE CacheSet(acc, entryOfParts(parts, ParseRFC3339(parts[7])))

\* LoadEntries on one line.
loadLine(acc, line) == IF line = <<>> THEN acc ELSE loadParts(acc, Split(line, "|"))

RECURSIVE loadFrom(_, _, _)
\* The scanner loop of LoadEntries from line n on.
loadFrom(lines, n, acc) ==
    IF n > Len(lines) THEN acc
    ELSE loadFrom(lines, n + 1, loadLine(acc, TrimSpace(lines[n])))

\* The map after LoadEntries: unchanged when the file cannot be opened.
CacheLoadEntries(es, f) == IF ~f.exists THEN es ELSE loadFrom(f.lines, 1, <<>>)

\* The map after CleanExpiredEntries at time t.
CacheCleanExpiredEntries(es, t) == [k \in {j \in DOMAIN es : ~(t > es[j].Expiry)} |-> es[k]]

\* A constraint of two alternatives.
OrRange ==
    <<"^">> \o FormatVersion(1, 0, 0) \o <<" ", "|", "|", " ">> \o <<"^">> \o FormatVersion(2, 0, 0)

\* The entries handed to Cache.Set: two keys, expiries at every clock reading.
CacheEntries ==
    {CacheEntry(Core, TypeText("npm"), cons, FormatVersion(2, 0, 0), FormatVersion(1, 7, 0),
                expiry) :
        cons \in {<<"^">> \o FormatVersion(1, 0, 0), OrRange}, expiry \in 0..MaxTicks}

CacheKeys == {keyOf(e) : e \in CacheEntries}

(***************************************************************************)
(* The check loop (src/internal/updater/updater.go).                       *)
(***************************************************************************)
\* parser.Dependency
Dependency(name, version, originalVersion) ==
    [Name |-> name, Version |-> version, OriginalVersion |-> originalVersion]

CheckResult(outdatedDeps, errors, semverSkipped) ==
    [Outdated |-> outdatedDeps, Errors |-> errors, SemverSkipped |-> semverSkipped]

\* The regular expression ^([\^~>=<]+) of the updater.
getVersionPrefix(version) == SubSeq(version, 1, PrefixLen(version))

parseSemanticVersion(version) ==
    parseParts(Split(Split(Split(version, "-")[1], "+")[1], "."))

\* The switch on the prefix of isSemverCompatible: caret and tilde only.
prefixSwitch(prefix, currentVer, latestVer) ==
    CASE prefix = <<"^">> ->
           IF currentVer.Major = 0
           THEN IF currentVer.Minor = 0
                THEN latestVer.Major = 0 /\ latestVer.Minor = 0
                     /\ latestVer.Patch >= currentVer.Patch
                ELSE latestVer.Major = 0 /\ latestVer.Minor >= currentVer.Minor
           ELSE latestVer.Major = currentVer.Major
                /\ (latestVer.Minor > currentVer.Minor
                    \/ (latestVer.Minor = currentVer.Minor
                        /\ latestVer.Patch >= currentVer.Patch))
      [] prefix = <<"~">> ->
           latestVer.Major = currentVer.Major /\ latestVer.Minor = currentVer.Minor
           /\ latestVer.Patch >= currentVer.Patch
      [] OTHER -> FALSE

\* isSemverCompatible after the two parseSemanticVersion calls.
semverCompatibleParsed(prefix, currentVer, latestVer) ==
    currentVer.ok /\ latestVer.ok /\ prefixSwitch(prefix, currentVer, latestVer)

isSemverCompatible(originalVersion, latestVersion) ==
    IF getVersionPrefix(originalVersion) = <<>> THEN FALSE
    ELSE IF Contains(latestVersion, "-") THEN FALSE
    ELSE semverCompatibleParsed(getVersionPrefix(originalVersion),
                                parseSemanticVersion(CleanVersion(originalVersion)),
                                parseSemanticVersion(latestVersion))

\* What getLatestVersion returns when the lookup fails.
LookupFailed == [ok |-> FALSE, version |-> <<>>]

\* getLatestVersion: the latest version the registry of the file type names
\* for the package, or an error.
getLatestVersion(reg, pkg, fileType) ==
    IF fileType \in {"npm", "dart"} THEN reg[pkg] ELSE LookupFailed

DependencyError(name) == [Name |-> name, Error |-> "lookup failed"]

SemverSkipped(dep, latestVersion, reason) ==
    [Name |-> dep.Name, CurrentVersion |-> dep.Version, LatestVersion |-> latestVersion,
     OriginalVersion |-> dep.OriginalVersion, Reason |-> reason]

OutdatedDependency(dep, latestVersion) ==
    [Name |-> dep.Name, CurrentVersion |-> dep.Version, LatestVersion |-> latestVersion,
     OriginalVersion |-> dep.OriginalVersion]

\* A failed lookup that gives up the outdated dependencies found so far.
checkFetchedGivingUp(acc, dep, semverFlag, latest) ==
    IF ~latest.ok
    THEN [acc EXCEPT !.Errors = Append(@, DependencyError(dep.Name)), !.Outdated = <<>>]
    ELSE IF dep.Version # latest.version /\ latest.version # <<>>
    THEN IF semverFlag /\ ~isSemverCompatible(dep.OriginalVersion, latest.version)
         THEN [acc EXCEPT !.SemverSkipped =
                  Append(@, SemverSkipped(dep, latest.version, "incompatible with constraint"))]
         ELSE [acc EXCEPT !.Outdated = Append(@, OutdatedDependency(dep, latest.version))]
    ELSE acc

\* The body of the loop after getLatestVersion.
checkFetched(acc, dep, semverFlag, latest) ==
    IF ~latest.ok
    THEN [acc EXCEPT !.Errors = Append(@, DependencyError(dep.Name))]
    ELSE IF dep.Version # latest.version /\ latest.version # <<>>
    THEN IF semverFlag /\ ~isSemverCompatible(dep.OriginalVersion, latest.version)
         THEN [acc EXCEPT !.SemverSkipped =
                  Append(@, SemverSkipped(dep, latest.version, "incompatible with constraint"))]
         ELSE [acc EXCEPT !.Outdated = Append(@, OutdatedDependency(dep, latest.version))]
    ELSE acc

\* Dependencies the loop passes over: git, path and other complex references.
isComplex(dep) ==
    \/ HasPrefix(dep.Version, GitWord \o <<":">>)
    \/ HasPrefix(dep.Version, PathWord \o <<":">>)
    \/ dep.Version = <<"c", "o", "m", "p", "l", "e", "x">>

\* The body of the loop for one dependency.
checkDependency(acc, dep, fileType, semverFlag, reg) ==
    IF isComplex(dep) THEN acc
    ELSE IF semverFlag /\ getVersionPrefix(dep.OriginalVersion) = <<>>
    THEN [acc EXCEPT !.SemverSkipped = Append(@, SemverSkipped(dep, <<>>, "hardcoded version"))]
    ELSE checkFetched(acc, dep, semverFlag, getLatestVersion(reg, dep.Name, fileType))

RECURSIVE checkFrom(_, _, _, _, _, _)
\* The loop over the dependencies from index i on.
checkFrom(deps, i, fileType, semverFlag, reg, acc) ==
    IF i > Len(deps) THEN acc
    ELSE checkFrom(deps, i + 1, fileType, semverFlag, reg,
                   checkDependency(acc, deps[i], fileType, semverFlag, reg))

CheckOutdatedWithProgress(deps, fileType, semverFlag, reg) ==
    checkFrom(deps, 1, fileType, semverFlag, reg, CheckResult(<<>>, <<>>, <<>>))

\* One call of the progress callback: its two arguments and, as the
\* callback can observe them, the outcomes the loop has recorded by then.
progressCallback(current, total, acc) ==
    [current |-> current, total |-> total, recorded |-> acc]

RECURSIVE progressFrom(_, _, _, _, _, _)
\* The calls of the progress callback the loop makes from index i on: one at
\* the head of every pass, before the dependency of the pass is looked at.
progressFrom(deps, i, fileType, semverFlag, reg, acc) ==
    IF i > Len(deps) THEN <<>>
    ELSE <<progressCallback(i, Len(deps), acc)>>
         \o progressFrom(deps, i + 1, fileType, semverFlag, reg,
                         checkDependency(acc, deps[i], fileType, semverFlag, reg))

\* The package of the Node typings of TestCheckForUpdatesIntegration.
Node == <<"n", "o", "d", "e">>

\* A package whose registry is behind the version a manifest asks for.
Tool == <<"t", "o", "o", "l">>

CheckedPackages == {Node, Core, Web, Tool}

\* The versions a registry has of a package.
Available(pkg) ==
    IF pkg = Node THEN NodeVersions
    ELSE IF pkg = Core THEN PubVersions(Core)
    ELSE IF pkg = Tool THEN <<FormatVersion(0, 2, 3)>>
    ELSE <<FormatVersion(0, 0, 1), FormatVersion(0, 0, 2)>>

\* The answers to the lookups of a run: for every package an error or the
\* version the registry names as latest, the greatest it has.
Registries ==
    {[pkg \in CheckedPackages |->
         IF pkg \in failing THEN LookupFailed
         ELSE [ok |-> TRUE, version |-> Available(pkg)[Len(Available(pkg))]]] :
        failing \in SUBSET CheckedPackages}

\* The dependencies of a manifest: the Node typings behind a caret, a caret
\* and a hardcoded version with a newer release, a version that is the
\* latest, a version ahead of the registry, and a git reference.
CheckedDependencies ==
    {Dependency(Node, FormatVersion(22, 16, 0), <<"^">> \o FormatVersion(22, 16, 0)),
     Dependency(Core, FormatVersion(1, 0, 0), <<"^">> \o FormatVersion(1, 0, 0)),
     Dependency(Core, FormatVersion(1, 0, 0), FormatVersion(1, 0, 0)),
     Dependency(Web, FormatVersion(0, 0, 2), <<"~">> \o FormatVersion(0, 0, 2)),
     Dependency(Tool, FormatVersion(0, 2, 5), <<"^">> \o FormatVersion(0, 2, 5)),
     Dependency(PkgE, GitWord \o <<":">> \o HostedRegistry, GitWord \o <<":">> \o HostedRegistry)}

DependencyLists == UNION {[1..k -> CheckedDependencies] : k \in 0..MaxDeps}

(***************************************************************************)
(* State machine.                                                          *)
(***************************************************************************)
\* No cache file, and no cache operation so far.
NoCache ==
    /\ cacheFile = NoFile
    /\ lookupKey = <<>>
    /\ stored = NoEntry
    /\ returned = Miss
    /\ roundTrip = 0

\* No registry and no check so far.
NoCheck ==
    /\ registry = <<>>
    /\ semver = FALSE
    /\ result = CheckResult(<<>>, <<>>, <<>>)
    /\ progress = <<>>

NoResult ==
    /\ compatible = FALSE
    /\ absoluteLatest = <<>>
    /\ constraintLatest = <<>>
    /\ err = "nil"
    /\ ecosystem = "none"
    /\ registryURL = "none"
    /\ packageName = <<>>
    /\ cacheHit = FALSE
    /\ entries = <<>>
    /\ now = 0
    /\ calls = 0
    /\ file = <<>>
    /\ original = <<>>
    /\ outdated = <<>>
    /\ includePeerDependencies = FALSE
    /\ dependencies = <<>>
    /\ NoCache
    /\ NoCheck

\* The arguments of one call of IsSemverCompatible.
InitCompat ==
    /\ op = "args"
    /\ snapshot = "none"
    /\ useCache = FALSE
    /\ versions = <<>>
    /\ \/ constraint \in SingleConstraints /\ target \in Targets
       \/ constraint \in CompoundConstraints /\ target \in CompoundTargets
    /\ NoResult

\* The arguments of one call of FindBothLatestVersions.
InitResolve ==
    /\ op = "args"
    /\ snapshot = "none"
    /\ useCache = FALSE
    /\ target = <<>>
    /\ versions \in VersionLists
    /\ constraint \in ResolveConstraints
    /\ NoResult

\* A run of the program: its build, whether it runs with a cache, an empty cache.
InitRegistry ==
    /\ op = "init"
    /\ snapshot \in Snapshots
    /\ useCache \in BOOLEAN
    /\ constraint = <<>>
    /\ target = <<>>
    /\ versions = <<>>
    /\ NoResult

\* The arguments of one call of a manifest parser or updater, and the file.
InitManifest ==
    /\ op = "args"
    /\ snapshot = "none"
    /\ useCache = FALSE
    /\ constraint = <<>>
    /\ target = <<>>
    /\ versions = <<>>
    /\ compatible = FALSE
    /\ absoluteLatest = <<>>
    /\ constraintLatest = <<>>
    /\ err = "nil"
    /\ packageName = <<>>
    /\ cacheHit = FALSE
    /\ entries = <<>>
    /\ now = 0
    /\ calls = 0
    /\ ecosystem \in {"npm", "pub"}
    /\ registryURL = "none"
    /\ \/ file = Manifest(ecosystem) /\ outdated \in UpdateRequests(ecosystem)
       \/ ecosystem = "npm" /\ file \in LaidOutPackageJsons /\ outdated = <<>>
    /\ original = file
    /\ includePeerDependencies \in BOOLEAN
    /\ dependencies = <<>>
    /\ NoCache
    /\ NoCheck

\* A cache created by NewCache when there is no cache file.
InitCache ==
    /\ op = "NewCache"
    /\ snapshot = "none"
    /\ useCache = TRUE
    /\ constraint = <<>>
    /\ target = <<>>
    /\ versions = <<>>
    /\ NoResult

\* The arguments of one call of CheckOutdatedWithProgress and the registries.
InitCheck ==
    /\ op = "parsed"
    /\ snapshot = "none"
    /\ useCache = FALSE
    /\ constraint = <<>>
    /\ target = <<>>
    /\ versions = <<>>
    /\ compatible = FALSE
    /\ absoluteLatest = <<>>
    /\ constraintLatest = <<>>
    /\ err = "nil"
    /\ packageName = <<>>
    /\ cacheHit = FALSE
    /\ entries = <<>>
    /\ now = 0
    /\ calls = 0
    /\ file = <<>>
    /\ original = <<>>
    /\ outdated = <<>>
    /\ includePeerDependencies = FALSE
    /\ NoCache
    /\ ecosystem \in {"npm", "dart", "other"}
    /\ registryURL = "none"
    /\ dependencies \in DependencyLists
    /\ registry \in Registries
    /\ semver \in BOOLEAN
    /\ result = CheckResult(<<>>, <<>>, <<>>)
    /\ progress = <<>>

Init == InitCompat \/ InitResolve \/ InitRegistry \/ InitManifest \/ InitCache \/ InitCheck

RegistryUnchanged ==
    UNCHANGED <<ecosystem, registryURL, packageName, useCache, cacheHit, entries, now, calls, manifestVars, cacheVars, checkVars>>

\* IsSemverCompatible(constraint, target) of part_011.
CallIsSemverCompatible ==
    /\ op = "args"
    /\ versions = <<>>
    /\ op' = "IsSemverCompatible"
    /\ snapshot' = "part_011"
    /\ compatible' = IsSemverCompatible(constraint, target)
    /\ UNCHANGED <<constraint, target, versions, absoluteLatest, constraintLatest, err>>
    /\ RegistryUnchanged

\* IsSemverCompatible(constraint, target) of part_012.
CallIsSemverCompatibleMM ==
    /\ op = "args"
    /\ versions = <<>>
    /\ op' = "IsSemverCompatible"
    /\ snapshot' = "part_012"
    /\ compatible' = IsSemverCompatibleMM(constraint, target)
    /\ UNCHANGED <<constraint, target, versions, absoluteLatest, constraintLatest, err>>
    /\ RegistryUnchanged

\* The results of FindBothLatestVersions become the state.
Return(r) ==
    /\ absoluteLatest' = r.absoluteLatest
    /\ constraintLatest' = r.constraintLatest
    /\ err' = r.err

\* FindBothLatestVersions(versions, constraint) of part_011.
CallFindBothLatestVersions ==
    /\ op = "args"
    /\ target = <<>>
    /\ op' = "FindBothLatestVersions"
    /\ snapshot' = "part_011"
    /\ Return(FindBothLatestVersions(versions, constraint))
    /\ UNCHANGED <<constraint, target, versions, compatible>>
    /\ RegistryUnchanged

\* FindBothLatestVersions(versions, constraint) of part_012.
CallFindBothLatestVersionsMM ==
    /\ op = "args"
    /\ target = <<>>
    /\ op' = "FindBothLatestVersions"
    /\ snapshot' = "part_012"
    /\ Return(FindBothLatestVersionsMM(versions, constraint))
    /\ UNCHANGED <<constraint, target, versions, compatible>>
    /\ RegistryUnchanged

\* The outcome of a registry lookup becomes the state.
Deliver(eco, url, pkg, cons, o) ==
    /\ op' = "GetBothLatestVersions"
    /\ ecosystem' = eco
    /\ registryURL' = url
    /\ packageName' = pkg
    /\ constraint' = cons
    /\ versions' = o.versions
    /\ absoluteLatest' = o.absoluteLatest
    /\ constraintLatest' = o.constraintLatest
    /\ err' = o.err
    /\ cacheHit' = o.cacheHit
    /\ entries' = o.entries
    /\ calls' = calls + 1
    /\ UNCHANGED <<snapshot, target, compatible, useCache, now, manifestVars, cacheVars, checkVars>>

\* RegistryClient.GetBothLatestVersions of internal/npm.
NpmGetBothLatestVersions ==
    /\ op \in {"init", "GetBothLatestVersions", "Tick"}
    /\ calls < MaxCalls
    /\ \E pkg \in Packages, cons \in RegistryConstraints, fetched \in BOOLEAN,
          url \in RegistryURLs :
          \E listing \in fetchPackageInfo("npm", pkg, url) :
             Deliver("npm", url, pkg, cons,
                     GetBothLatestVersions(snapshot, "npm", pkg, cons, fetched, listing,
                                           entries, now, useCache))

\* RegistryClient.GetBothLatestVersions of internal/pub.
PubGetBothLatestVersions ==
    /\ op \in {"init", "GetBothLatestVersions", "Tick"}
    /\ calls < MaxCalls
    /\ \E pkg \in Packages, cons \in RegistryConstraints, fetched \in BOOLEAN,
          url \in RegistryURLs :
          \E listing \in fetchPackageInfo("pub", pkg, url) :
             Deliver("pub", url, pkg, cons,
                     GetBothLatestVersions(snapshot, "pub", pkg, cons, fetched, listing,
                                           entries, now, useCache))

\* Time passes between two lookups.
Tick ==
    /\ op \in {"init", "GetBothLatestVersions", "Tick"}
    /\ now < MaxTicks * TickMinutes * Minute
    /\ op' = "Tick"
    /\ now' = now + TickMinutes * Minute
    /\ UNCHANGED <<snapshot, constraint, target, versions, compatible, absoluteLatest,
                   constraintLatest, err, ecosystem, registryURL, packageName, useCache, cacheHit,
                   entries, calls, manifestVars, cacheVars, checkVars>>

ManifestFrame ==
    UNCHANGED <<snapshot, constraint, target, versions, compatible, absoluteLatest,
                constraintLatest, ecosystem, registryURL, packageName, useCache, cacheHit, entries,
                now, calls, original, outdated, includePeerDependencies, cacheVars, checkVars>>

\* Parser.ParseDependencies of internal/npm reads the file.
CallNpmParseDependencies ==
    /\ op = "args"
    /\ ecosystem = "npm"
    /\ outdated = <<>>
    /\ op' = "ParseDependencies"
    /\ dependencies' = NpmParseDependencies(file, includePeerDependencies)
    /\ UNCHANGED <<file, err>>
    /\ ManifestFrame

\* Parser.ParseDependencies of internal/pub reads the file.
CallPubParseDependencies ==
    /\ op = "args"
    /\ ecosystem = "pub"
    /\ outdated = <<>>
    /\ op' = "ParseDependencies"
    /\ dependencies' = PubParseDependencies(file)
    /\ UNCHANGED <<file, err>>
    /\ ManifestFrame

\* The error an updater returns and the file it leaves.
Rewrite(r) ==
    /\ op' = "UpdateDependencies"
    /\ err' = r.err
    /\ file' = r.file
    /\ UNCHANGED dependencies
    /\ ManifestFrame

\* Updater.UpdateDependencies of internal/npm rewrites the file.
CallNpmUpdateDependencies ==
    /\ op = "args"
    /\ ecosystem = "npm"
    /\ Rewrite(NpmUpdateDependencies(file, outdated, includePeerDependencies))

\* Updater.UpdateDependencies of internal/pub rewrites the file.
CallPubUpdateDependencies ==
    /\ op = "args"
    /\ ecosystem = "pub"
    /\ Rewrite(PubUpdateDependencies(file, outdated, includePeerDependencies))

NextCompat == CallIsSemverCompatible \/ CallIsSemverCompatibleMM

NextResolve == CallFindBothLatestVersions \/ CallFindBothLatestVersionsMM

NextRegistry == NpmGetBothLatestVersions \/ PubGetBothLatestVersions \/ Tick

NextManifest ==
    \/ CallNpmParseDependencies
    \/ CallPubParseDependencies
    \/ CallNpmUpdateDependencies
    \/ CallPubUpdateDependencies

\* The operations on a cache.
CacheOps ==
    {"NewCache", "Set", "Get", "LoadEntries", "SaveEntries", "SaveEntriesStopped",
     "CleanExpiredEntries", "Clear", "Elapse"}

CacheFrame ==
    UNCHANGED <<snapshot, constraint, target, versions, compatible, absoluteLatest,
                constraintLatest, err, ecosystem, registryURL, packageName, useCache, cacheHit, calls,
                manifestVars, checkVars>>

\* NewCache(): a new map, filled by LoadEntries.
NewCache ==
    /\ op \in CacheOps
    /\ op' = "NewCache"
    /\ entries' = CacheLoadEntries(<<>>, cacheFile)
    /\ roundTrip' = IF roundTrip = 2 THEN 3 ELSE 0
    /\ lookupKey' = <<>>
    /\ returned' = Miss
    /\ UNCHANGED <<now, cacheFile, stored>>
    /\ CacheFrame

\* Cache.Set(entry)
Set ==
    /\ op \in CacheOps
    /\ op' = "Set"
    /\ \E e \in CacheEntries :
          /\ stored' = e
          /\ entries' = CacheSet(entries, e)
    /\ roundTrip' = 1
    /\ lookupKey' = <<>>
    /\ returned' = Miss
    /\ UNCHANGED <<now, cacheFile>>
    /\ CacheFrame

\* Cache.Get(key)
Get ==
    /\ op \in CacheOps
    /\ op' = "Get"
    /\ \E k \in CacheKeys :
          /\ lookupKey' = k
          /\ returned' = CacheGetResult(entries, k, now)
          /\ entries' = CacheGet(entries, k, now).entries
    /\ UNCHANGED <<now, cacheFile, stored, roundTrip>>
    /\ CacheFrame

\* Cache.LoadEntries()
LoadEntries ==
    /\ op \in CacheOps
    /\ op' = "LoadEntries"
    /\ entries' = CacheLoadEntries(entries, cacheFile)
    /\ roundTrip' = IF roundTrip = 2 THEN 3 ELSE 0
    /\ lookupKey' = <<>>
    /\ returned' = Miss
    /\ UNCHANGED <<now, cacheFile, stored>>
    /\ CacheFrame

\* Cache.SaveEntries()
SaveEntries ==
    /\ op \in CacheOps
    /\ op' = "SaveEntries"
    /\ cacheFile' \in CacheSaveEntries(entries)
    /\ roundTrip' = IF roundTrip = 1 THEN 2 ELSE 0
    /\ lookupKey' = <<>>
    /\ returned' = Miss
    /\ UNCHANGED <<now, entries, stored>>
    /\ CacheFrame

\* Cache.SaveEntries() that does not come to its end: after os.Create has
\* emptied the file and some of the lines are written, a write fails or the
\* process stops.
SaveEntriesStopped ==
    /\ op \in CacheOps
    /\ op' = "SaveEntriesStopped"
    /\ \E f \in CacheSaveEntries(entries) :
          \E k \in 0..(Len(f.lines) - 1) :
             cacheFile' = [exists |-> TRUE, lines |-> SubSeq(f.lines, 1, k)]
    /\ roundTrip' = 0
    /\ lookupKey' = <<>>
    /\ returned' = Miss
    /\ UNCHANGED <<now, entries, stored>>
    /\ CacheFrame

\* Cache.CleanExpiredEntries()
CleanExpiredEntries ==
    /\ op \in CacheOps
    /\ op' = "CleanExpiredEntries"
    /\ entries' = CacheCleanExpiredEntries(entries, now)
    /\ roundTrip' = 0
    /\ lookupKey' = <<>>
    /\ returned' = Miss
    /\ UNCHANGED <<now, cacheFile, stored>>
    /\ CacheFrame

\* Cache.Clear()
Clear ==
    /\ op \in CacheOps
    /\ op' = "Clear"
    /\ entries' = <<>>
    /\ roundTrip' = 0
    /\ lookupKey' = <<>>
    /\ returned' = Miss
    /\ UNCHANGED <<now, cacheFile, stored>>
    /\ CacheFrame

\* The clock advances by one reading between two cache operations.
Elapse ==
    /\ op \in CacheOps
    /\ now < MaxTicks
    /\ op' = "Elapse"
    /\ now' = now + 1
    /\ lookupKey' = <<>>
    /\ returned' = Miss
    /\ UNCHANGED <<entries, cacheFile, stored, roundTrip>>
    /\ CacheFrame

NextCache ==
    \/ NewCache
    \/ Set
    \/ Get
    \/ LoadEntries
    \/ SaveEntries
    \/ SaveEntriesStopped
    \/ CleanExpiredEntries
    \/ Clear
    \/ Elapse

\* CheckOutdatedWithProgress(dependencies, fileType, verbose, semver,
\* progressCallback) with a callback that records its calls.
CallCheckOutdatedWithProgress ==
    /\ op = "parsed"
    /\ op' = "CheckOutdatedWithProgress"
    /\ result' = CheckOutdatedWithProgress(dependencies, ecosystem, semver, registry)
    /\ progress' = progressFrom(dependencies, 1, ecosystem, semver, registry,
                                CheckResult(<<>>, <<>>, <<>>))
    /\ UNCHANGED <<snapshot, constraint, target, versions, compatible, absoluteLatest,
                   constraintLatest, err, ecosystem, registryURL, packageName, useCache, cacheHit, entries,
                   now, calls, manifestVars, cacheVars, registry, semver>>

NextCheck == CallCheckOutdatedWithProgress

Next == NextCompat \/ NextResolve \/ NextRegistry \/ NextManifest \/ NextCache \/ NextCheck

\* The constraint engine: one call on every pair of arguments.
SpecCompat == InitCompat /\ [][NextCompat]_vars

\* The candidate resolver: one call on every pair of arguments.
SpecResolve == InitResolve /\ [][NextResolve]_vars

\* The registry clients over a shared cache and a clock.
SpecRegistry == InitRegistry /\ [][NextRegistry]_vars

\* The manifest parsers and updaters: one call on every file and request.
SpecManifest == InitManifest /\ [][NextManifest]_vars

SpecCache == InitCache /\ [][NextCache]_vars

SpecCheck == InitCheck /\ [][NextCheck]_vars

Spec == Init /\ [][Next]_vars

(***************************************************************************)
(* Properties.                                                             *)
(***************************************************************************)
HasPreRelease(v) == Contains(v, "-")

Caret(v) == <<"^">> \o v

Tilde(v) == <<"~">> \o v

\* FindBothLatestVersions of the snapshot has returned.
Resolved(snap) == op = "FindBothLatestVersions" /\ snapshot = snap

\* IsSemverCompatible of the snapshot has returned.
Checked(snap) == op = "IsSemverCompatible" /\ snapshot = snap

\* satisfies(constraint, v) as the engine of the snapshot decides it.
Satisfies(snap, cons, v) ==
    IF snap = "part_011" THEN IsSemverCompatible(cons, v) ELSE IsSemverCompatibleMM(cons, v)

\* The candidates that parse as versions, pre-releases dropped unless the
\* constraint carries a pre-release marker itself (steps 1 and 2 of the resolver).
Pool(vs, cons) ==
    {v \in Elems(vs) : ParseSemanticVersion(v).ok /\ (HasPreRelease(cons) \/ ~HasPreRelease(v))}

\* v is an element of S that no element of S exceeds in (major, minor, patch).
NumericallyGreatest(v, S) ==
    /\ v \in S
    /\ \A w \in S :
          compareSemanticVersions(ParseSemanticVersion(w), ParseSemanticVersion(v)) <= 0

\* Every clause of the constraint is a comparator followed by a version.
WellFormed(cons) ==
    \A i \in 1..Len(Fields(cons)) :
       /\ GetVersionPrefix(Fields(cons)[i]) # <<>>
       /\ ParseSemanticVersion(CleanVersion(Fields(cons)[i])).ok

ScenarioVersions == {FormatVersion(0, 0, 1), FormatVersion(0, 0, 2), FormatVersion(0, 1, 0)}

\* C1: whenever the filtered pool is non-empty, FindBothLatestVersions of
\* part_011 returns the numerically greatest version of the pool as
\* absoluteLatest and the numerically greatest satisfying version of the pool
\* as constraintLatest, whatever the order of the list (stated here for the
\* constraints with a stable base).
C1_GreatestOfPool ==
    (/\ Resolved("part_011")
     /\ ~HasPreRelease(constraint)
     /\ Pool(versions, constraint) # {}) =>
        /\ NumericallyGreatest(absoluteLatest, Pool(versions, constraint))
        /\ \A v \in Pool(versions, constraint) :
              IsSemverCompatible(constraint, v) =>
                 NumericallyGreatest(constraintLatest,
                                     {w \in Pool(versions, constraint) :
                                         IsSemverCompatible(constraint, w)})

\* C2: when the filtered pool is non-empty and none of its candidates satisfies
\* the constraint, FindBothLatestVersions returns a non-empty absoluteLatest, an
\* empty constraintLatest and the 'no versions satisfy the constraint' error
\* (stated here for the well-formed constraints with a stable base).
C2_AbsoluteLatestWithError ==
    \A snap \in Snapshots :
       (/\ Resolved(snap)
        /\ WellFormed(constraint)
        /\ ~HasPreRelease(constraint)
        /\ Pool(versions, constraint) # {}
        /\ \A v \in Pool(versions, constraint) : ~Satisfies(snap, constraint, v)) =>
           /\ absoluteLatest # <<>>
           /\ constraintLatest = <<>>
           /\ err = "no versions satisfy the constraint"

\* C3: whenever a registry lists a stable version and none of the listed
\* versions satisfies the constraint, GetBothLatestVersions of the npm and pub
\* clients still returns the absoluteLatest the resolver computed, with an
\* empty constraintLatest.
C3_RegistryDeliversAbsoluteLatest ==
    (/\ op = "GetBothLatestVersions"
     /\ ~cacheHit
     /\ \E i \in 1..Len(versions) : ~HasPreRelease(versions[i])
     /\ err = "no versions satisfy the constraint") =>
        /\ absoluteLatest # <<>>
        /\ absoluteLatest =
              sharedFindBothLatestVersions(snapshot, versions, constraint).absoluteLatest
        /\ constraintLatest = <<>>

\* C4: when the base version of the constraint is stable, neither result of
\* FindBothLatestVersions carries a pre-release marker; {1.0.0, 1.1.0-beta,
\* 1.1.0} with ^1.0.0 gives absoluteLatest 1.1.0, and a list of pre-releases
\* only gives an error with both results empty.
C4_NoPreReleaseForStableBase ==
    \A snap \in Snapshots :
       (Resolved(snap) /\ ~HasPreRelease(constraint)) =>
          /\ ~HasPreRelease(absoluteLatest)
          /\ ~HasPreRelease(constraintLatest)
          /\ (versions = MixedVersions /\ constraint = Caret(FormatVersion(1, 0, 0))) =>
                absoluteLatest = FormatVersion(1, 1, 0)
          /\ (versions # <<>> /\ \A i \in 1..Len(versions) : HasPreRelease(versions[i])) =>
                (err # "nil" /\ absoluteLatest = <<>> /\ constraintLatest = <<>>)

\* C4 witness: part_012 has resolved ^1.0.0 over {1.0.0, 1.1.0-beta, 1.1.0}.
C4_Witness ==
    /\ Resolved("part_012")
    /\ constraint = Caret(FormatVersion(1, 0, 0))
    /\ versions = MixedVersions
    /\ absoluteLatest = FormatVersion(1, 1, 0)
    /\ constraintLatest = FormatVersion(1, 1, 0)

\* C5: for every version v, IsSemverCompatible("^" + v, v) is true, pre-release
\* bases included.
C5_CaretAdmitsItsBase ==
    \A snap \in Snapshots :
       (/\ Checked(snap)
        /\ target \in StableVersions \cup PreVersions
        /\ constraint = Caret(target)) => compatible

\* C6: for ^0.y.z with y > 0, IsSemverCompatible holds exactly for the stable
\* candidates 0.y.p with p >= z.
C6_CaretZeroMajor ==
    \A snap \in Snapshots : \A y \in 1..MaxNum, z \in Nums :
       (Checked(snap) /\ constraint = Caret(FormatVersion(0, y, z))) =>
          (compatible <=> \E p \in z..MaxNum : target = FormatVersion(0, y, p))

C9_CompoundAllClauses ==
    (Checked("part_011") /\ Contains(constraint, " ")) =>
       (compatible <=>
           \A i \in 1..Len(Fields(constraint)) :
              IsSemverCompatible(Fields(constraint)[i], target))

\* C10: for a constraint without a comparator prefix, IsSemverCompatible is
\* true if and only if the candidate equals the constraint byte for byte.
C10_PinnedExact ==
    \A snap \in Snapshots :
       (/\ Checked(snap)
        /\ ~Contains(constraint, " ")
        /\ GetVersionPrefix(constraint) = <<>>) => (compatible <=> target = constraint)

\* C11: pre-release candidates are kept in the pool exactly when the base
\* version of the constraint carries a pre-release marker: with a pre-release
\* base FindBothLatestVersions returns the greatest candidate of the list,
\* pre-releases included, as absoluteLatest, and with a stable base its
\* absoluteLatest is never a pre-release.
C11_PreReleaseRetention ==
    \A snap \in Snapshots :
       Resolved(snap) =>
          /\ (/\ HasPreRelease(constraint)
              /\ WellFormed(constraint)
              /\ Pool(versions, constraint) # {}) =>
                NumericallyGreatest(absoluteLatest, Pool(versions, constraint))
          /\ ~HasPreRelease(constraint) => ~HasPreRelease(absoluteLatest)

\* The lines of the file on disk and of the file before the call.
FileLines == Split(file, LF)

OriginalLines == Split(original, LF)

\* The updates of the request the updater is asked to apply: the package.json
\* updater leaves peer dependencies out unless they are included.
Requested ==
    IF ecosystem = "npm" THEN dependenciesToUpdate(outdated, includePeerDependencies)
    ELSE outdated

\* An updater has returned.
Updated(eco) == op = "UpdateDependencies" /\ ecosystem = eco

\* A parser has returned.
Parsed(eco) == op = "ParseDependencies" /\ ecosystem = eco

RECURSIVE ReplaceFirst(_, _, _)
\* s with the first occurrence of old replaced by new.
ReplaceFirst(s, old, new) ==
    IF s = <<>> THEN <<>>
    ELSE IF HasPrefix(s, old) THEN new \o SubSeq(s, Len(old) + 1, Len(s))
    ELSE <<Head(s)>> \o ReplaceFirst(Tail(s), old, new)

\* The lines of the two occurrences of package a in the package.json.
FirstOccurrence ==
    CHOOSE i \in 1..Len(PackageJsonLines) :
       PackageJsonLines[i] = JsonEntry(PkgA, <<"^">> \o FormatVersion(1, 0, 0), <<>>)

SecondOccurrence ==
    CHOOSE i \in 1..Len(PackageJsonLines) :
       PackageJsonLines[i] = JsonEntry(PkgA, <<">", "=">> \o FormatVersion(1, 0, 0), <<>>)

Anchored(u) ==
    /\ u.LineNumber \in 1..Len(OriginalLines)
    /\ HasPrefix(TrimSpace(OriginalLines[u.LineNumber]),
                 IF ecosystem = "npm" THEN <<DQ>> \o u.Name \o <<DQ, ":", " ", DQ>>
                 ELSE IF u.HostedURL # <<>> THEN VersionWord \o <<":", " ">>
                 ELSE u.Name \o <<":", " ">>)

C14_PrefixAndQuotesKept ==
    \A eco \in {"npm", "pub"} :
       (Updated(eco) /\ err = "nil" /\ Len(Requested) = 1) =>
          FileLines[Requested[1].LineNumber] =
             ReplaceFirst(OriginalLines[Requested[1].LineNumber], FormatVersion(1, 0, 0),
                          Requested[1].LatestVersion)

\* The packages of each manifest that have no version constraint: a workspace
\* reference in the package.json; the SDK, "any", the path and the git
\* reference in the pubspec.yaml.
Unversioned(eco) == IF eco = "npm" THEN {PkgC} ELSE {FlutterWord, PkgC, PkgD, PkgE}

\* C18: no parser emits a dependency that has no version constraint.
C18_UnversionedExcluded ==
    \A eco \in {"npm", "pub"} :
       Parsed(eco) =>
          \A i \in 1..Len(dependencies) : dependencies[i].Name \notin Unversioned(eco)

\* The last operation was Get, after a Set of the entry stored with only
\* lookups and clock readings since, and the lookup was for its key.
LookedUpStored == op = "Get" /\ roundTrip = 1 /\ lookupKey = keyOf(stored)

\* C15: after any sequence of cache operations Get returns found only for an
\* entry whose expiry has not passed; an entry set with an expiry in the past
\* is a miss on the next Get, and after a miss the key is not in the map.
C15_GetOnlyUnexpired ==
    op = "Get" =>
       /\ returned.ok =>
             /\ ~(now > returned.entry.Expiry)
             /\ lookupKey \in DOMAIN entries
             /\ entries[lookupKey] = returned.entry
       /\ ~returned.ok => lookupKey \notin DOMAIN entries
       /\ (LookedUpStored /\ now > stored.Expiry) => ~returned.ok

\* C15 witness: the Get after a Set of an entry whose expiry has passed.
C15_Witness ==
    /\ LookedUpStored
    /\ now > stored.Expiry
    /\ ~returned.ok
    /\ lookupKey \notin DOMAIN entries

\* C16: an entry that is set, saved and loaded into a fresh cache is found by
\* Get under its key while it has not expired, equal in all seven fields.
C16_RoundTrip ==
    (/\ op = "Get"
     /\ roundTrip = 3
     /\ lookupKey = keyOf(stored)
     /\ ~(now > stored.Expiry)) =>
        /\ returned.ok
        /\ returned.entry = stored

\* C17: every record SaveEntries writes has an expiry that has not passed at
\* the time of the save.
C17_SavedUnexpired ==
    op = "SaveEntries" =>
       \A i \in 1..Len(cacheFile.lines) :
          \A k \in DOMAIN entries :
             cacheFile.lines[i] = cacheLine(entries[k]) => ~(now > entries[k].Expiry)

\* CheckOutdatedWithProgress has returned.
CheckReturned == op = "CheckOutdatedWithProgress"

\* The loop looks the dependency up and the lookup fails.
LookupFails(dep) ==
    /\ ~isComplex(dep)
    /\ ~(semver /\ getVersionPrefix(dep.OriginalVersion) = <<>>)
    /\ ~getLatestVersion(registry, dep.Name, ecosystem).ok

\* A sequence without its element i.
Without(s, i) == SubSeq(s, 1, i - 1) \o SubSeq(s, i + 1, Len(s))

\* The failed lookups among the first i dependencies.
FailuresUpTo(i) == Cardinality({j \in 1..i : LookupFails(dependencies[j])})

\* The result of the run without dependency i, plus the error of dependency i.
IsolatedFrom(i, rest) ==
    /\ result.Outdated = rest.Outdated
    /\ result.SemverSkipped = rest.SemverSkipped
    /\ FailuresUpTo(i) \in 1..Len(result.Errors)
    /\ result.Errors[FailuresUpTo(i)].Name = dependencies[i].Name
    /\ Without(result.Errors, FailuresUpTo(i)) = rest.Errors

\* C19: a failed lookup is recorded as one DependencyError with the name of
\* the dependency, the dependency is not in the outdated set, and the
\* outdated set, the skipped set and the other errors are those of the run
\* without the failing dependency.
C19_FailureIsolated ==
    CheckReturned =>
       \A i \in 1..Len(dependencies) :
          LookupFails(dependencies[i]) =>
             /\ \A j \in 1..Len(result.Outdated) :
                   result.Outdated[j].Name # dependencies[i].Name
             /\ Len(result.Errors) = FailuresUpTo(Len(dependencies))
             /\ IsolatedFrom(i, CheckOutdatedWithProgress(Without(dependencies, i), ecosystem,
                                                          semver, registry))

\* C19 witness: the second lookup of a run fails after the first dependency
\* was found outdated.
C19_Witness ==
    /\ CheckReturned
    /\ Len(dependencies) = 2
    /\ ~LookupFails(dependencies[1])
    /\ LookupFails(dependencies[2])
    /\ Len(result.Outdated) = 1
    /\ result.Outdated[1].Name = dependencies[1].Name
    /\ Len(result.Errors) = 1
    /\ result.Errors[1].Name = dependencies[2].Name

\* The dependency on the Node typings with constraint ^22.16.0.
NodeDependency ==
    Dependency(Node, FormatVersion(22, 16, 0), <<"^">> \o FormatVersion(22, 16, 0))

\* C20: in semver mode the dependency ^22.16.0, with the versions 22.15.0 to
\* 24.1.0 available, is reported outdated with target 22.17.0, and a
\* SemverSkipped entry is recorded for 24.1.0.
C20_ConstraintLatestReported ==
    (/\ CheckReturned
     /\ semver
     /\ getLatestVersion(registry, Node, ecosystem).ok
     /\ \E i \in 1..Len(dependencies) : dependencies[i] = NodeDependency) =>
        /\ \E j \in 1..Len(result.Outdated) :
              /\ result.Outdated[j].Name = Node
              /\ result.Outdated[j].LatestVersion = FormatVersion(22, 17, 0)
        /\ \E k \in 1..Len(result.SemverSkipped) :
              /\ result.SemverSkipped[k].Name = Node
              /\ result.SemverSkipped[k].LatestVersion = FormatVersion(24, 1, 0)

\* The results of FindBothLatestVersions of the snapshot on the candidates in
\* another order.
Reordered(snap, perm) == sharedFindBothLatestVersions(snap, perm, constraint)

\* C21: FindBothLatestVersions returns the same absoluteLatest and
\* constraintLatest for the same constraint and the same candidates in
\* whatever order the candidates are listed.
C21_OrderIndependent ==
    \A snap \in Snapshots :
       Resolved(snap) =>
          \A perm \in orderings(Elems(versions)) :
             /\ Reordered(snap, perm).absoluteLatest = absoluteLatest
             /\ Reordered(snap, perm).constraintLatest = constraintLatest

\* The text of a line up to and including its first colon.
KeyPart(line) == SubSeq(line, 1, IndexOf(line, ":"))

\* C22: every dependency the pub parser emits for the unmodified
\* pubspec.yaml can be fed back to the pub updater: the updater does not
\* fail, and it changes the value on the anchored line only, the key of that
\* line and every other line being what they were.
C22_ParsedCanBeUpdated ==
    (/\ Updated("pub")
     /\ ~includePeerDependencies
     /\ Len(outdated) = 1
     /\ outdated[1] \in FedBackDependencies) =>
        /\ err = "nil"
        /\ Len(FileLines) = Len(OriginalLines)
        /\ \A n \in 1..Len(OriginalLines) :
              n # outdated[1].LineNumber => FileLines[n] = OriginalLines[n]
        /\ KeyPart(FileLines[outdated[1].LineNumber]) =
              KeyPart(OriginalLines[outdated[1].LineNumber])
        /\ ContainsStr(FileLines[outdated[1].LineNumber], outdated[1].LatestVersion)

\* A comparator clause holds for a version, by the numbers of both.
ClauseHolds(clause, v) ==
    comparatorSwitch(GetVersionPrefix(clause),
                     compareSemanticVersions(ParseSemanticVersion(v),
                                             ParseSemanticVersion(CleanVersion(clause))))

\* Every clause of a constraint of comparator clauses holds for a version.
AllClausesHold(cons, v) ==
    \A i \in 1..Len(Fields(cons)) : ClauseHolds(Fields(cons)[i], v)

\* The constraint is a lower and an upper bound.
IsRange(cons) == cons \in {CompoundRange, BoundedRange}

\* C23: FindBothLatestVersions supports compound constraints: for a lower
\* and an upper bound over candidates that all parse it returns, without an
\* error about an invalid version, the greatest candidate as absoluteLatest
\* and the greatest candidate inside both bounds as constraintLatest: 2.0.0
\* and 1.25.0 for >=1.21.0 <2.0.0 over 1.20.0, 1.25.0, 2.0.0.
C23_CompoundConstraint ==
    \A snap \in Snapshots :
       (/\ Resolved(snap)
        /\ IsRange(constraint)
        /\ \A i \in 1..Len(versions) : ParseSemanticVersion(versions[i]).ok
        /\ \E v \in Pool(versions, constraint) : AllClausesHold(constraint, v)) =>
           /\ err = "nil"
           /\ NumericallyGreatest(absoluteLatest, Pool(versions, constraint))
           /\ NumericallyGreatest(constraintLatest,
                                  {v \in Pool(versions, constraint) :
                                      AllClausesHold(constraint, v)})
           /\ (versions = BoundedVersions /\ constraint = BoundedRange) =>
                 /\ absoluteLatest = FormatVersion(2, 0, 0)
                 /\ constraintLatest = FormatVersion(1, 25, 0)

\* The candidate parses as a version in the engine of the snapshot.
Parses(snap, v) == IF snap = "part_011" THEN ParseSemanticVersion(v).ok ELSE NewVersion(v).ok

\* The candidates that parse, in the order of the list.
Parsable(snap, vs) == SelectSeq(vs, LAMBDA v : Parses(snap, v))

\* C24: candidates that do not parse as versions are discarded:
\* FindBothLatestVersions never returns one of them as absoluteLatest or
\* constraintLatest, and both results are those of the list without them.
C24_UnparsableDiscarded ==
    \A snap \in Snapshots :
       Resolved(snap) =>
          /\ absoluteLatest # <<>> => Parses(snap, absoluteLatest)
          /\ constraintLatest # <<>> => Parses(snap, constraintLatest)
          /\ Reordered(snap, Parsable(snap, versions)).absoluteLatest = absoluteLatest
          /\ Reordered(snap, Parsable(snap, versions)).constraintLatest = constraintLatest

\* C25: SaveEntries replaces the file as a whole: whether it comes to its
\* end or stops at a failed write, the cache file then holds either what it
\* held before or a line for every entry of the map.
C25_WholeFileReplace ==
    [][op' \in {"SaveEntries", "SaveEntriesStopped"} =>
          (cacheFile' = cacheFile \/ cacheFile' \in CacheSaveEntries(entries))]_vars

\* The outcomes recorded once the first k dependencies are resolved.
ResolvedUpTo(k) ==
    CheckOutdatedWithProgress(SubSeq(dependencies, 1, k), ecosystem, semver, registry)

\* The callback is called once per dependency, with the counts 1, 2, ... up
\* to the number of dependencies.
CountedByOne ==
    /\ Len(progress) = Len(dependencies)
    /\ \A k \in 1..Len(progress) :
          progress[k].current = k /\ progress[k].total = Len(dependencies)

\* C26: the progress callback is called once per dependency with the counts
\* 1, 2, ... up to the total, and the call with count k comes when the
\* outcome of the k-th dependency is already recorded.
C26_ProgressAfterResolution ==
    CheckReturned =>
        /\ CountedByOne
        /\ \A k \in 1..Len(progress) : progress[k].recorded = ResolvedUpTo(k)

\* The counts of the callback alone.
C26_CountPart == CheckReturned => CountedByOne

\* What a lookup of the package at the registry of the last call resolves to.
ResolvedAt(url) ==
    {sharedFindBothLatestVersions(snapshot, listing, constraint) :
        listing \in fetchPackageInfo(ecosystem, packageName, url)}

\* C27: a lookup answered from the cache returns what the registry it was
\* asked to use resolves to, never the versions of another registry.
C27_HitFromSameRegistry ==
    (op = "GetBothLatestVersions" /\ cacheHit) =>
        \E r \in ResolvedAt(registryURL) :
            r.absoluteLatest = absoluteLatest /\ r.constraintLatest = constraintLatest

\* C28: for every comparator p of ^, ~, >=, >, <=, < and every version n,
\* IsSemverCompatible(p + n, n) of part_011 is true: the constraint an update
\* writes admits the version it was updated to.
C28_RewrittenAdmitsNew ==
    \A p \in Comparators :
       (/\ Checked("part_011")
        /\ target \in StableVersions \cup PreVersions
        /\ constraint = p \o target) => compatible

\* The second version is strictly greater than the first in semantic version order.
StrictlyGreater(current, latest) ==
    /\ ParseSemanticVersion(current).ok
    /\ ParseSemanticVersion(latest).ok
    /\ compareSemanticVersions(ParseSemanticVersion(latest), ParseSemanticVersion(current)) > 0

\* C29: every outdated dependency CheckOutdatedWithProgress reports, in plain
\* and in semver mode, has a latest version strictly greater than its
\* current version: no downgrade is proposed.
C29_NoDowngrade ==
    CheckReturned =>
        \A i \in 1..Len(result.Outdated) :
            StrictlyGreater(result.Outdated[i].CurrentVersion, result.Outdated[i].LatestVersion)

\* The names a layout declares directly inside a dependency section that is
\* read, each with the type of its section.
Declared(l, includePeer) ==
    UNION {{[Name |-> l[i].pairs[j][1], Type |-> l[i].key] : j \in 1..Len(l[i].pairs)} :
              i \in {k \in 1..Len(l) :
                        l[k].key = Dependencies
                        \/ (includePeer /\ l[k].key = PeerDependencies)}}

\* C30: every dependency the package.json parser emits is a key directly
\* inside a dependencies or, when enabled, peerDependencies object and is
\* tagged with the type of that section, whatever the layout of the file.
C30_OnlyDeclaredKeys ==
    \A l \in PackageLayouts :
       (Parsed("npm") /\ file = LayoutFile(l)) =>
          \A i \in 1..Len(dependencies) :
             [Name |-> dependencies[i].Name, Type |-> dependencies[i].Type]
                \in Declared(l, includePeerDependencies)

====
